---- MODULE Spec2Model ----
(***************************************************************************)
(* Timestamp canonicalizer and ordering validator of the QA test scripts:  *)
(*   src/check_order.py      convert_timestamp_to_nanoseconds,             *)
(*                           validate_timestamp_ordering, the test driver  *)
(*   src/convert_to_unix.py  convert_timestamp_to_nanoseconds (copy)       *)
(*   src/time_sequence_new.py convert_timestamp_to_nanoseconds (copy),     *)
(*                           timestamp_schema                              *)
(*   src/full_test.py        convert_timestamp_to_nanoseconds (copy)       *)
(*                                                                         *)
(* Strings are sequences of one-character strings, so that split, slicing, *)
(* ljust and int() are modelled by what they do to the characters.         *)
(* Python integers are unbounded and the canonical values reach 2.5e20, so *)
(* they are modelled as signed numbers with base-10000 limbs.              *)
(***************************************************************************)
EXTENDS Integers, Sequences, FiniteSets, TLC

VARIABLES
    ts,           \* converter call: the timestamp_str argument
    granularity,  \* converter call: the granularity argument
    copy,         \* converter call: which copy of the function is called
    ret,          \* converter call: [state, value] of the call
    calls,        \* converter calls made so far: [copy, ts, granularity, ret]
    rows,         \* validator: the caller's DataFrame rows
    df_columns,   \* validator: the column names of the caller's DataFrame
    run_gran,     \* validator: granularity argument of the run
    pc,           \* validator: position in validate_timestamp_ordering / the test
    timestamp_ns, \* validator: the df['timestamp_ns'] column
    i,            \* validator: loop index
    validation_results, \* validator: list of row results
    reports,      \* validator: the reports returned by the runs so far
    summary,      \* test driver: invalid_count, valid_count, ordering_passed
    disorders_file, \* save_reports: the DISORDERS_ONLY file, [header, lines]
    cross_check,  \* timestamp_schema: outcome of the DataFrame-level check
    schema_passed, \* test driver: routing_schema.validate raised no SchemaErrors
    schema_errors, \* test driver: the failure cases of routing_schema, or None
    files,        \* save_reports: the report files written, in order
    test_result,  \* test driver: "not_run", "running", "passed" or the error
    full_results, \* full_test.py: the results dict of validate_timestamp_with_schema
    upload,       \* Zephyr: the results document or the list of test cases given
    requests,     \* Zephyr: the requests sent to the server, with their outcome
    created_tests, \* Zephyr: the list create_test_cases_bulk builds
    upload_ret    \* Zephyr: what the function called has returned, or None

vars == <<ts, granularity, copy, ret, calls, rows, df_columns, run_gran, pc,
          timestamp_ns, i, validation_results, reports, summary, disorders_file,
          cross_check, schema_passed, schema_errors, files, test_result,
          full_results, upload, requests, created_tests, upload_ret>>

convVars == <<ts, granularity, copy, ret, calls>>
valVars == <<rows, df_columns, run_gran, pc, timestamp_ns, i, validation_results,
             reports, summary, disorders_file, cross_check, schema_passed,
             schema_errors, files, test_result, full_results, upload,
             requests, created_tests, upload_ret>>
zephyrVars == <<upload, requests, created_tests, upload_ret>>
extVars == <<full_results, zephyrVars>>
testVars == <<schema_passed, schema_errors, files, test_result, extVars>>

(***************************************************************************)
(* Unbounded integers: [neg |-> BOOLEAN, mag |-> limbs], limbs little      *)
(* endian in base 10000 with no high zero limb; zero is [FALSE, <<>>].     *)
(* The representation is canonical: equal numbers are equal records.       *)
(***************************************************************************)
RECURSIVE NatNorm(_)
NatNorm(a) ==
    IF a = <<>> THEN <<>>
    ELSE IF a[Len(a)] = 0 THEN NatNorm(SubSeq(a, 1, Len(a) - 1))
    ELSE a

RECURSIVE NatFromInt(_)
NatFromInt(n) ==
    IF n = 0 THEN <<>> ELSE <<n % 10000>> \o NatFromInt(n \div 10000)

Limb(a, k) == IF k <= Len(a) THEN a[k] ELSE 0

MaxOf(x, y) == IF x >= y THEN x ELSE y
MinOf(x, y) == IF x <= y THEN x ELSE y

RECURSIVE NatAddC(_, _, _, _)
NatAddC(a, b, k, carry) ==
    IF k > MaxOf(Len(a), Len(b))
    THEN (IF carry = 0 THEN <<>> ELSE <<carry>>)
    ELSE LET t == Limb(a, k) + Limb(b, k) + carry
         IN  <<t % 10000>> \o NatAddC(a, b, k + 1, t \div 10000)

NatAdd(a, b) == NatAddC(a, b, 1, 0)

\* a - b for a >= b
RECURSIVE NatSubC(_, _, _, _)
NatSubC(a, b, k, borrow) ==
    IF k > Len(a) THEN <<>>
    ELSE LET t == Limb(a, k) - Limb(b, k) - borrow
         IN  IF t < 0 THEN <<t + 10000>> \o NatSubC(a, b, k + 1, 1)
             ELSE <<t>> \o NatSubC(a, b, k + 1, 0)

NatSub(a, b) == NatNorm(NatSubC(a, b, 1, 0))

RECURSIVE NatLessFrom(_, _, _)
NatLessFrom(a, b, k) ==
    IF k = 0 THEN FALSE
    ELSE IF a[k] # b[k] THEN a[k] < b[k]
    ELSE NatLessFrom(a, b, k - 1)

NatLess(a, b) ==
    IF Len(a) # Len(b) THEN Len(a) < Len(b) ELSE NatLessFrom(a, b, Len(a))

\* a * m for 0 <= m <= 100000
RECURSIVE NatMulC(_, _, _, _)
NatMulC(a, m, k, carry) ==
    IF k > Len(a) THEN NatFromInt(carry)
    ELSE LET t == a[k] * m + carry
         IN  <<t % 10000>> \o NatMulC(a, m, k + 1, t \div 10000)

NatMulSmall(a, m) == NatNorm(NatMulC(a, m, 1, 0))

Zero == [neg |-> FALSE, mag |-> <<>>]
MkInt(neg, mag) == [neg |-> (neg /\ mag # <<>>), mag |-> mag]
BigOf(n) == IF n < 0 THEN MkInt(TRUE, NatFromInt(0 - n)) ELSE MkInt(FALSE, NatFromInt(n))

BigAdd(x, y) ==
    IF x.neg = y.neg THEN MkInt(x.neg, NatAdd(x.mag, y.mag))
    ELSE IF NatLess(x.mag, y.mag) THEN MkInt(y.neg, NatSub(y.mag, x.mag))
    ELSE MkInt(x.neg, NatSub(x.mag, y.mag))

BigNeg(x) == MkInt(~x.neg, x.mag)
BigSub(x, y) == BigAdd(x, BigNeg(y))

BigLess(x, y) ==
    IF x.neg # y.neg THEN x.neg
    ELSE IF x.neg THEN NatLess(y.mag, x.mag)
    ELSE NatLess(x.mag, y.mag)

BigMulSmall(x, m) == MkInt(x.neg, NatMulSmall(x.mag, m))

\* x * 1_000_000_000 in exact integer arithmetic
BigTimesBillion(x) == BigMulSmall(BigMulSmall(x, 100000), 10000)

(***************************************************************************)
(* float arithmetic of line 81-82: total_seconds() is a float holding the  *)
(* whole seconds exactly (below 2^53); seconds * 1_000_000_000 is an IEEE  *)
(* double product, rounded to 53 significant bits, ties to even; int() of  *)
(* the integral product is exact.                                          *)
(***************************************************************************)
\* 2^k as a machine number, 0 <= k <= 16
Pow2Int(k) ==
    IF k = 0 THEN 1
    ELSE <<2, 4, 8, 16, 32, 64, 128, 256, 512, 1024, 2048, 4096, 8192,
           16384, 32768, 65536>>[k]

\* a * 2^e, e <= 26, in two steps of at most 13 bits
ShiftLeft(a, e) ==
    IF e <= 13 THEN NatMulSmall(a, Pow2Int(e))
    ELSE NatMulSmall(NatMulSmall(a, Pow2Int(13)), Pow2Int(e - 13))

\* a mod 2^e, e <= 16: 10000^4 is a multiple of 2^16, so only the four low
\* limbs count
ModPow2(a, e) ==
    LET d  == Pow2Int(e)
        b1 == 10000 % d
        b2 == (b1 * b1) % d
        b3 == (b2 * b1) % d
    IN  ((Limb(a, 1) % d) + ((Limb(a, 2) * b1) % d) + ((Limb(a, 3) * b2) % d)
             + ((Limb(a, 4) * b3) % d)) % d

\* 2^53 = 9007 1992 5474 0992: a double has 53 significant bits
TwoTo53 == <<992, 5474, 1992, 9007>>

\* number of low bits a double drops from the natural a (a < 2^68)
DroppedBits(a) ==
    IF NatLess(a, TwoTo53) THEN 0
    ELSE CHOOSE e \in 1..15 :
             /\ NatLess(a, ShiftLeft(TwoTo53, e))
             /\ ~NatLess(a, ShiftLeft(TwoTo53, e - 1))

\* round the natural a to the nearest double: the nearest multiple of 2^e,
\* ties to the one whose quotient by 2^e is even
RoundToDouble(a) ==
    LET e == DroppedBits(a) IN
    IF e = 0 THEN a
    ELSE LET low  == ModPow2(a, e)
             half == Pow2Int(e - 1)
             odd  == ModPow2(a, e + 1) >= Pow2Int(e)
             down == NatSub(a, NatFromInt(low))
         IN  IF low > half \/ (low = half /\ odd)
             THEN NatAdd(down, NatFromInt(Pow2Int(e)))
             ELSE down

\* int(seconds_since_epoch * 1_000_000_000) for whole seconds s
FloatTimesBillion(s) ==
    MkInt(s.neg, RoundToDouble(BigTimesBillion(s).mag))

(***************************************************************************)
(* datetime(year, month, day, hour, minute, second) and (dt - epoch):      *)
(* the proleptic Gregorian calendar of the standard library, no timezone.  *)
(***************************************************************************)
IsLeap(y) == (y % 4 = 0) /\ ((y % 100 # 0) \/ (y % 400 = 0))

DaysInMonth(y, m) ==
    IF m = 2 THEN (IF IsLeap(y) THEN 29 ELSE 28)
    ELSE IF m \in {4, 6, 9, 11} THEN 30 ELSE 31

DaysBeforeYear(y) ==
    LET p == y - 1 IN p * 365 + (p \div 4) - (p \div 100) + (p \div 400)

RECURSIVE DaysBeforeMonth(_, _)
DaysBeforeMonth(y, m) ==
    IF m = 1 THEN 0 ELSE DaysBeforeMonth(y, m - 1) + DaysInMonth(y, m - 1)

ToOrdinal(y, m, d) == DaysBeforeYear(y) + DaysBeforeMonth(y, m) + d

\* mutant: the hour is not range-checked
DatetimeOk_NoHourCheck(y, m, d, hh, mi, ss) ==
    /\ y \in 1..9999
    /\ m \in 1..12
    /\ d >= 1 /\ d <= DaysInMonth(y, m)
    /\ mi \in 0..59
    /\ ss \in 0..59

\* datetime(...) raises ValueError outside these ranges
DatetimeOk(y, m, d, hh, mi, ss) ==
    /\ y \in 1..9999
    /\ m \in 1..12
    /\ d >= 1 /\ d <= DaysInMonth(y, m)
    /\ hh \in 0..23
    /\ mi \in 0..59
    /\ ss \in 0..59

\* (dt - epoch).total_seconds() as an exact integer: days * 86400 + seconds
SecondsSinceEpoch(y, m, d, hh, mi, ss) ==
    LET days == ToOrdinal(y, m, d) - ToOrdinal(1970, 1, 1)
        secs == hh * 3600 + mi * 60 + ss
    IN  BigAdd(BigMulSmall(BigOf(days), 86400), BigOf(secs))

(***************************************************************************)
(* str operations used by the converter.                                   *)
(***************************************************************************)
Digit == {"0", "1", "2", "3", "4", "5", "6", "7", "8", "9"}
Whitespace == {" ", "\t", "\n"}

DigitVal(c) ==
    CASE c = "0" -> 0 [] c = "1" -> 1 [] c = "2" -> 2 [] c = "3" -> 3
      [] c = "4" -> 4 [] c = "5" -> 5 [] c = "6" -> 6 [] c = "7" -> 7
      [] c = "8" -> 8 [] c = "9" -> 9

\* a value that is not a str (None, NaN, a number): it has no split method
NoneValue == <<"None">>
IsStr(v) == v # NoneValue

\* s.split(sep) for a one-character sep: k separators give k + 1 parts
RECURSIVE Split(_, _)
Split(s, sep) ==
    IF \A k \in 1..Len(s) : s[k] # sep THEN <<s>>
    ELSE LET k == CHOOSE k \in 1..Len(s) :
                      s[k] = sep /\ \A j \in 1..(k - 1) : s[j] # sep
         IN  <<SubSeq(s, 1, k - 1)>> \o Split(SubSeq(s, k + 1, Len(s)), sep)

\* s[a:b] for 0 <= a <= b, clamped to the length of s
Slice(s, a, b) ==
    LET hi == MinOf(b, Len(s)) IN
    IF a >= hi THEN <<>> ELSE [k \in 1..(hi - a) |-> s[a + k]]

\* s.ljust(w, fill)
LJust(s, w, fill) ==
    IF Len(s) >= w THEN s ELSE s \o [k \in 1..(w - Len(s)) |-> fill]

\* s.strip()
RECURSIVE Strip(_)
Strip(s) ==
    IF s = <<>> THEN s
    ELSE IF s[1] \in Whitespace THEN Strip(SubSeq(s, 2, Len(s)))
    ELSE IF s[Len(s)] \in Whitespace THEN Strip(SubSeq(s, 1, Len(s) - 1))
    ELSE s

RECURSIVE DigitsValue(_, _)
DigitsValue(s, acc) ==
    IF s = <<>> THEN acc
    ELSE IF s[1] = "_" THEN DigitsValue(SubSeq(s, 2, Len(s)), acc)
    ELSE DigitsValue(SubSeq(s, 2, Len(s)), acc * 10 + DigitVal(s[1]))

\* int(s): surrounding whitespace, an optional sign, then decimal digits
\* with single underscores allowed between digits; anything else raises
\* ValueError.  [ok, val]
PyInt(s) ==
    LET t      == Strip(s)
        signed == t # <<>> /\ t[1] \in {"+", "-"}
        body   == IF signed THEN SubSeq(t, 2, Len(t)) ELSE t
        wellformed ==
            /\ body # <<>>
            /\ body[1] \in Digit
            /\ body[Len(body)] \in Digit
            /\ \A k \in 1..Len(body) : body[k] \in Digit \cup {"_"}
            /\ \A k \in 1..(Len(body) - 1) : ~(body[k] = "_" /\ body[k + 1] = "_")
    IN  IF ~wellformed THEN [ok |-> FALSE, val |-> 0]
        ELSE [ok  |-> TRUE,
              val |-> IF signed /\ t[1] = "-"
                      THEN 0 - DigitsValue(body, 0)
                      ELSE DigitsValue(body, 0)]

(***************************************************************************)
(* convert_timestamp_to_nanoseconds: the three copies.                     *)
(* A body yields [raised, value]: raised when a statement inside the try   *)
(* block raises, value the int the return statement is reached with.       *)
(***************************************************************************)
INVALID == BigOf(-1)

Raised == [raised |-> TRUE, value |-> Zero]
Value(v) == [raised |-> FALSE, value |-> v]

\* the statements from the split on '-' to the read of the sub-second
\* token, the same in every copy: [raised, year, ..., second, subsecond_str]
ParseFields(timestamp_str) ==
    LET parts             == Split(timestamp_str, "-")
        date_part         == parts[1]
        time_part         == parts[2]
        time_components   == Split(time_part, ":")
        year              == PyInt(Slice(date_part, 0, 4))
        month             == PyInt(Slice(date_part, 4, 6))
        day               == PyInt(Slice(date_part, 6, 8))
        hour              == PyInt(time_components[1])
        minute            == PyInt(time_components[2])
        second_and_subsec == Split(time_components[3], ".")
        second            == PyInt(second_and_subsec[1])
        raises ==
            \/ ~IsStr(timestamp_str)          \* AttributeError: no split
            \/ Len(parts) # 2                 \* ValueError: unpacking
            \/ ~year.ok \/ ~month.ok \/ ~day.ok
            \/ ~hour.ok
            \/ Len(time_components) < 2       \* IndexError
            \/ ~minute.ok
            \/ Len(time_components) < 3       \* IndexError
            \/ ~second.ok
            \/ Len(second_and_subsec) < 2     \* IndexError
    IN  IF raises
        THEN [raised |-> TRUE, year |-> 0, month |-> 0, day |-> 0, hour |-> 0,
              minute |-> 0, second |-> 0, subsecond_str |-> <<>>]
        ELSE [raised |-> FALSE, year |-> year.val, month |-> month.val,
              day |-> day.val, hour |-> hour.val, minute |-> minute.val,
              second |-> second.val, subsecond_str |-> second_and_subsec[2]]

\* dt = datetime(...); seconds_since_epoch = (dt - epoch).total_seconds();
\* int(seconds_since_epoch * 1_000_000_000) + nanosecond
SinceEpoch(f, nanosecond) ==
    IF ~DatetimeOk(f.year, f.month, f.day, f.hour, f.minute, f.second)
    THEN Raised
    ELSE Value(BigAdd(
             FloatTimesBillion(SecondsSinceEpoch(f.year, f.month, f.day,
                                                 f.hour, f.minute, f.second)),
             BigOf(nanosecond)))

\* src/check_order.py, the body of the try block
CheckOrderBody(timestamp_str, gran) ==
    LET f == ParseFields(timestamp_str) IN
    IF f.raised THEN Raised
    ELSE IF gran = "nanosecond"
    THEN LET nanosecond == PyInt(Slice(LJust(f.subsecond_str, 9, "0"), 0, 9))
         IN  IF ~nanosecond.ok THEN Raised ELSE SinceEpoch(f, nanosecond.val)
    ELSE IF gran = "microsecond"
    THEN LET microsecond == PyInt(Slice(LJust(f.subsecond_str, 6, "0"), 0, 6))
         IN  IF ~microsecond.ok THEN Raised
             ELSE SinceEpoch(f, microsecond.val * 1000)
    ELSE Raised                               \* ValueError: Unknown granularity

\* src/convert_to_unix.py, the body of the try block.  The file is the
\* function alone, with no import: the name datetime of line 25 is unbound
\* in the module, and the statement raises NameError once the fields are read
ConvertToUnixBody(timestamp_str) ==
    LET f == ParseFields(timestamp_str) IN
    IF f.raised THEN Raised
    ELSE LET nanosecond == PyInt(Slice(LJust(f.subsecond_str, 9, "0"), 0, 9))
         IN  IF ~nanosecond.ok THEN Raised
             ELSE Raised                      \* NameError: datetime

\* src/time_sequence_new.py, the body of the try block.  The file uses
\* Check, Column, DataFrameSchema, pd and datetime with no import, and its
\* line 32 stops it from loading as it stands; it runs only below an import
\* header such as lines 2-5 of src/check_order.py, which binds datetime too
TimeSequenceNewBody(timestamp_str) ==
    LET f == ParseFields(timestamp_str) IN
    IF f.raised THEN Raised
    ELSE LET nanosecond == PyInt(f.subsecond_str)
         IN  IF ~nanosecond.ok THEN Raised ELSE SinceEpoch(f, nanosecond.val)

\* src/full_test.py lines 84-102: the fraction is the fourth ':' field
FullTestBody(timestamp_str) ==
    LET parts           == Split(timestamp_str, "-")
        date_part       == parts[1]
        time_part       == parts[2]
        time_components == Split(time_part, ":")
        year            == PyInt(Slice(date_part, 0, 4))
        month           == PyInt(Slice(date_part, 4, 6))
        day             == PyInt(Slice(date_part, 6, 8))
        hour            == PyInt(time_components[1])
        minute          == PyInt(time_components[2])
        second          == PyInt(time_components[3])
        nanosecond      == PyInt(time_components[4])
        raises ==
            \/ ~IsStr(timestamp_str)
            \/ Len(parts) # 2
            \/ ~year.ok \/ ~month.ok \/ ~day.ok
            \/ ~hour.ok
            \/ Len(time_components) < 2
            \/ ~minute.ok
            \/ Len(time_components) < 3
            \/ ~second.ok
            \/ Len(time_components) < 4
            \/ ~nanosecond.ok
    IN  IF raises THEN Raised
        ELSE SinceEpoch([year |-> year.val, month |-> month.val, day |-> day.val,
                         hour |-> hour.val, minute |-> minute.val,
                         second |-> second.val], nanosecond.val)

\* mutant: no except clause, the exception leaves the call
Except_Propagate(body) ==
    IF body.raised THEN [state |-> "raised", value |-> Zero]
    ELSE [state |-> "returned", value |-> body.value]

\* try: ... except Exception: return -1, the same in every copy.
\* [state, value]: the call returned value, or an exception left the call
Except(body) ==
    IF body.raised THEN [state |-> "returned", value |-> INVALID]
    ELSE [state |-> "returned", value |-> body.value]

\* src/full_test.py has no try block: an exception of the body leaves the call
NoExcept(body) ==
    IF body.raised THEN [state |-> "raised", value |-> Zero]
    ELSE [state |-> "returned", value |-> body.value]

Copies == {"check_order", "convert_to_unix", "time_sequence_new", "full_test"}

\* the call convert_timestamp_to_nanoseconds(timestamp_str, gran) of a copy
Call(c, timestamp_str, gran) ==
    CASE c = "check_order"       -> Except(CheckOrderBody(timestamp_str, gran))
      [] c = "convert_to_unix"   -> Except(ConvertToUnixBody(timestamp_str))
      [] c = "time_sequence_new" -> Except(TimeSequenceNewBody(timestamp_str))
      [] c = "full_test"         -> NoExcept(FullTestBody(timestamp_str))

\* check_order.convert_timestamp_to_nanoseconds(timestamp_str, gran)
convert_timestamp_to_nanoseconds(timestamp_str, gran) ==
    Call("check_order", timestamp_str, gran).value

(***************************************************************************)
(* Inputs of the converter calls: timestamp strings written field by field *)
(* as "%04d%02d%02d-%02d:%02d:%02d.<fraction>", and malformed strings.     *)
(***************************************************************************)
DigitChar(n) ==
    CASE n = 0 -> "0" [] n = 1 -> "1" [] n = 2 -> "2" [] n = 3 -> "3"
      [] n = 4 -> "4" [] n = 5 -> "5" [] n = 6 -> "6" [] n = 7 -> "7"
      [] n = 8 -> "8" [] n = 9 -> "9"

\* n written in decimal, zero-padded on the left to w digits
RECURSIVE Pad(_, _)
Pad(n, w) ==
    IF w = 0 THEN <<>> ELSE Pad(n \div 10, w - 1) \o <<DigitChar(n % 10)>>

Fmt(date, hh, mm, ss, frac) ==
    date \o <<"-">> \o hh \o <<":">> \o mm \o <<":">> \o ss \o <<".">> \o frac

Stamp(y, m, d, hh, mi, sec, frac) ==
    Fmt(Pad(y, 4) \o Pad(m, 2) \o Pad(d, 2), Pad(hh, 2), Pad(mi, 2), Pad(sec, 2), frac)

Years == {1969, 1970, 2024, 2117, 9999}
MonthDays == {<<1, 1>>, <<2, 29>>, <<12, 31>>}
Hours == {0, 23}
Minutes == {0, 59}
Seconds == {0, 1, 59}
Fractions ==
    { Pad(0, 9), Pad(1, 9), Pad(100, 9), Pad(999999999, 9),   \* 9 digits
      Pad(1, 6), Pad(999999, 6),                              \* 6 digits
      <<"5">>, Pad(19, 7), Pad(1234567891, 10), <<>> }        \* other widths

RegularInputs ==
    { Stamp(y, md[1], md[2], hh, mi, sec, frac) :
        y \in Years, md \in MonthDays, hh \in Hours, mi \in Minutes,
        sec \in Seconds, frac \in Fractions }

\* one field out of range, of another width, or not a number; bad splits
IrregularInputs ==
    LET date == Pad(19700101, 8)
        z2   == Pad(0, 2)
        f9   == Pad(5, 9)
    IN  { NoneValue, <<>>,
          <<"n","o","t","-","a","-","t","i","m","e","s","t","a","m","p">>,
          Fmt(Pad(19701301, 8), z2, z2, z2, f9),      \* month 13
          Fmt(Pad(19700001, 8), z2, z2, z2, f9),      \* month 0
          Fmt(Pad(19700100, 8), z2, z2, z2, f9),      \* day 0
          Fmt(Pad(19700431, 8), z2, z2, z2, f9),      \* 31 April
          Fmt(Pad(101, 8), z2, z2, z2, f9),           \* year 0
          Fmt(date, Pad(24, 2), z2, z2, f9),          \* hour 24
          Fmt(date, z2, Pad(60, 2), z2, f9),          \* minute 60
          Fmt(date, z2, z2, Pad(60, 2), f9),          \* second 60
          Fmt(Pad(1970010, 7), z2, z2, z2, f9),       \* 7-character date
          Fmt(Pad(197001019, 9), z2, z2, z2, f9),     \* 9-character date
          Fmt(Pad(197012, 6), z2, z2, z2, f9),        \* 6-character date
          Fmt(date, <<"7">>, <<"8">>, <<"9">>, f9),   \* 1-digit time fields
          Fmt(date, Pad(7, 3), z2, z2, f9),           \* 3-digit hour
          Fmt(<<"1","9","7","0","x","1","0","1">>, z2, z2, z2, f9),
          Fmt(<<"1","9","7","0"," ","1"," ","1">>, z2, z2, z2, f9),
          Fmt(date, <<"x","x">>, z2, z2, f9),
          Fmt(date, z2, <<"+","5">>, z2, f9),
          Fmt(date, z2, <<>>, z2, f9),
          Fmt(date, z2, z2, <<"0","x">>, f9),
          Fmt(date, z2, z2, <<"1","_","0">>, f9),
          Fmt(date, z2, z2, z2, <<"0","0","0","0","0","0","0","0","x">>),
          Fmt(date, z2, z2, z2, <<"x">>),
          Fmt(date, z2, z2, z2, <<" ","5">>),
          Fmt(date, z2, z2, z2, <<"1","_","2">>),
          Fmt(date, z2, z2, z2, <<"5","_">>),
          date \o <<"-">> \o z2 \o <<":">> \o z2 \o <<":">> \o z2,        \* no fraction
          date \o <<"-">> \o z2 \o <<":">> \o z2,                         \* no second
          date \o <<"-">> \o z2,
          date,
          date \o <<"-">> \o z2 \o <<":">> \o z2 \o <<":">> \o z2 \o <<":">> \o f9,
          Pad(1970, 4) \o <<"-">> \o Pad(101, 4) \o <<"-">> \o z2 \o <<":">> \o z2
              \o <<":">> \o z2 \o <<".">> \o f9,
          Fmt(date, z2, z2, z2, f9) \o <<":">> \o <<"z">>,
          Fmt(date, z2, z2, z2, Pad(5, 3)) \o <<".">> \o Pad(7, 3) }

\* timestamps written with ':' before the fraction, as full_test.py reads them
ColonStamp(y, m, d, hh, mi, sec, frac) ==
    Pad(y, 4) \o Pad(m, 2) \o Pad(d, 2) \o <<"-">> \o Pad(hh, 2) \o <<":">>
        \o Pad(mi, 2) \o <<":">> \o Pad(sec, 2) \o <<":">> \o frac

ColonInputs ==
    { ColonStamp(y, md[1], md[2], 0, 0, sec, frac) :
        y \in Years, md \in MonthDays, sec \in {0, 1},
        frac \in {Pad(1, 9), Pad(999999999, 9), <<"5">>} }

ConvInputs == RegularInputs \cup IrregularInputs \cup ColonInputs

Granularities == {"nanosecond", "microsecond", "millisecond"}

\* the copies other than check_order.py take no granularity argument
CallKinds ==
    { <<"check_order", g>> : g \in Granularities }
        \cup { <<c, "nanosecond">> : c \in Copies \ {"check_order"} }

Pending == [state |-> "pending", value |-> Zero]

(***************************************************************************)
(* The converter called once on an input.                                  *)
(***************************************************************************)
ZephyrIdle ==
    /\ upload = <<>>
    /\ requests = <<>>
    /\ created_tests = <<>>
    /\ upload_ret = <<>>

ExtIdle ==
    /\ full_results = <<>>
    /\ ZephyrIdle

ValIdle ==
    /\ ExtIdle
    /\ rows = <<>>
    /\ df_columns = <<>>
    /\ reports = <<>>
    /\ run_gran = "nanosecond"
    /\ pc = "idle"
    /\ timestamp_ns = <<>>
    /\ i = 0
    /\ validation_results = <<>>
    /\ summary = <<>>
    /\ disorders_file = <<>>
    /\ cross_check = <<>>
    /\ schema_passed = TRUE
    /\ schema_errors = <<>>
    /\ files = <<>>
    /\ test_result = "not_run"

ConvInit ==
    /\ ts \in ConvInputs
    /\ \E k \in CallKinds : copy = k[1] /\ granularity = k[2]
    /\ ret = Pending
    /\ calls = <<>>
    /\ ValIdle

\* mutant: the result depends on how many calls were made before
Convert_Stateful ==
    /\ ret.state = "pending"
    /\ ret' = [state |-> "returned",
               value |-> BigAdd(Call(copy, ts, granularity).value,
                                BigOf(Len(calls)))]
    /\ calls' = Append(calls, [copy |-> copy, ts |-> ts,
                               granularity |-> granularity, ret |-> ret'])
    /\ UNCHANGED <<ts, granularity, copy>>
    /\ UNCHANGED valVars

\* one call: the function reads its arguments only and writes no global
Convert ==
    /\ ret.state = "pending"
    /\ ret' = Call(copy, ts, granularity)
    /\ calls' = Append(calls, [copy |-> copy, ts |-> ts,
                               granularity |-> granularity, ret |-> ret'])
    /\ UNCHANGED <<ts, granularity, copy>>
    /\ UNCHANGED valVars

ConvNext == Convert

SpecConv == ConvInit /\ [][ConvNext]_vars

(***************************************************************************)
(* The converter called several times in a row by one caller, with the     *)
(* same or with other arguments.                                           *)
(***************************************************************************)
MaxCalls == 3

CallInputs ==
    { Stamp(1970, 1, 1, 0, 0, 0, Pad(1, 9)), Stamp(2117, 1, 1, 0, 0, 1, <<"5">>) }

RepeatedKinds ==
    { <<"check_order", g>> : g \in Granularities }
        \cup { <<"convert_to_unix", "nanosecond">> }

CallsInit ==
    /\ ts \in CallInputs
    /\ \E k \in RepeatedKinds : copy = k[1] /\ granularity = k[2]
    /\ ret = Pending
    /\ calls = <<>>
    /\ ValIdle

\* the caller makes its next call once the last one has ended
Invoke ==
    /\ ret.state # "pending"
    /\ Len(calls) < MaxCalls
    /\ ts' \in CallInputs
    /\ \E k \in RepeatedKinds : copy' = k[1] /\ granularity' = k[2]
    /\ ret' = Pending
    /\ UNCHANGED calls
    /\ UNCHANGED valVars

CallsNext == Invoke \/ Convert

SpecCalls == CallsInit /\ [][CallsNext]_vars

(***************************************************************************)
(* validate_timestamp_ordering and its caller                              *)
(* test_routing_sequence_timestamp_ordering (src/check_order.py).          *)
(* An optional value is <<>> for None and <<v>> for the value v.           *)
(***************************************************************************)
None == <<>>
Some(v) == <<v>>

MaxRows == 3

\* timestamps a few nanoseconds apart, and one that does not convert
NearTimestamps ==
    { Stamp(1970, 1, 1, 0, 0, 0, Pad(100, 9)),
      Stamp(1970, 1, 1, 0, 0, 0, Pad(200, 9)),
      Stamp(1970, 1, 1, 0, 0, 0, Pad(300, 9)),
      <<"n","o","t","-","a","-","t","i","m","e","s","t","a","m","p">> }

\* timestamps centuries apart: their values and differences reach 2^63
RowTimestamps ==
    NearTimestamps \cup
    { Stamp(1700, 1, 1, 0, 0, 0, Pad(0, 9)),
      Stamp(2250, 1, 1, 0, 0, 0, Pad(0, 9)),
      Stamp(2300, 1, 1, 0, 0, 0, Pad(0, 9)) }

\* rows of any timestamps are enumerated up to this many
MaxWideRows == 2

\* the query result: n rows ordered by routing_sequence DESC
MakeRows(stamps) ==
    [k \in 1..Len(stamps) |->
        [id               |-> 100 + k,
         routing_sequence |-> 10 * (Len(stamps) - k + 1),
         timestamp        |-> stamps[k]]]

RowInputs ==
    UNION { [1..n -> NearTimestamps] : n \in 0..MaxRows }
        \cup UNION { [1..n -> RowTimestamps] : n \in 0..MaxWideRows }

\* lines 25-35: the columns of the query result
QueryColumns == <<"id", "routing_sequence", "timestamp", "timesequence">>

ConvIdle ==
    /\ calls = <<>>
    /\ ts = <<>>
    /\ granularity = "nanosecond"
    /\ copy = "check_order"
    /\ ret = Pending

\* A run starts either with the test module being loaded, run_gran being
\* TIMESTAMP_GRANULARITY of the environment (line 23), or with a call
\* validate_timestamp_ordering(df, run_gran) by a caller of the function.
Init ==
    /\ \E stamps \in RowInputs : rows = MakeRows(stamps)
    /\ run_gran \in Granularities
    /\ df_columns = QueryColumns
    /\ reports = <<>>
    /\ pc \in {"import", "start"}
    /\ timestamp_ns = <<>>
    /\ i = 0
    /\ validation_results = <<>>
    /\ summary = <<>>
    /\ disorders_file = None
    /\ cross_check = None
    /\ schema_passed = TRUE
    /\ schema_errors = None
    /\ files = <<>>
    /\ test_result = IF pc = "import" THEN "running" ELSE "not_run"
    /\ ExtIdle
    /\ ConvIdle

\* lines 155-164: the module-level check of TIMESTAMP_GRANULARITY raises
\* ValueError while the module is loaded; otherwise the test runs
ModuleCheck ==
    /\ pc = "import"
    /\ pc' = IF run_gran \in {"nanosecond", "microsecond"}
             THEN "test" ELSE "config_error"
    /\ UNCHANGED <<rows, df_columns, run_gran, timestamp_ns, i, validation_results,
                   reports, summary, disorders_file, cross_check, testVars>>
    /\ UNCHANGED convVars

\* lines 155-161: subsecond_length of the granularity the module loaded with
subsecond_length(g) == IF g = "nanosecond" THEN 9 ELSE 6

\* lines 156 and 160: timestamp_pattern, \d{8}-\d{2}:\d{2}:\d{2}\.\d{n}
MatchesPattern(s, g) ==
    /\ Len(s) = 18 + subsecond_length(g)
    /\ \A k \in 1..Len(s) :
           CASE k = 9            -> s[k] = "-"
             [] k \in {12, 15}   -> s[k] = ":"
             [] k = 18           -> s[k] = "."
             [] OTHER            -> s[k] \in Digit

\* line 190: s.str.split('.').str[1].str.len().eq(subsecond_length)
SubsecondLengthOk(s, g) ==
    LET parts == Split(s, ".") IN
    Len(parts) >= 2 /\ Len(parts[2]) = subsecond_length(g)

\* lines 167-200: the checks of routing_schema that fail on df, both being
\* evaluated (lazy=True); id and routing_sequence are integers of the query
FailureCases(df, g) ==
    (IF \A k \in 1..Len(df) : MatchesPattern(df[k].timestamp, g)
     THEN <<>> ELSE <<"timestamp_pattern">>)
    \o (IF \A k \in 1..Len(df) : SubsecondLengthOk(df[k].timestamp, g)
        THEN <<>> ELSE <<"subsecond_length">>)

\* lines 324-333: routing_schema.validate(routing_dataframe, lazy=True) in
\* try / except SchemaErrors; the test goes on to line 337 either way
SchemaValidation ==
    /\ pc = "test"
    /\ LET failure_cases == FailureCases(rows, run_gran) IN
       /\ schema_passed' = (failure_cases = <<>>)
       /\ schema_errors' = IF failure_cases = <<>> THEN None
                           ELSE Some(failure_cases)
    /\ pc' = "start"
    /\ UNCHANGED <<rows, df_columns, run_gran, timestamp_ns, i, validation_results,
                   reports, summary, disorders_file, cross_check, files,
                   test_result, extVars>>
    /\ UNCHANGED convVars

\* lines 103-105: df['timestamp_ns'] = df['timestamp'].apply(...): the
\* column is added to the caller's DataFrame, or replaced if it is there
ConvertColumn ==
    /\ pc = "start"
    /\ timestamp_ns' =
           [k \in 1..Len(rows) |->
               convert_timestamp_to_nanoseconds(rows[k].timestamp, run_gran)]
    /\ df_columns' = IF \E k \in 1..Len(df_columns) : df_columns[k] = "timestamp_ns"
                     THEN df_columns
                     ELSE Append(df_columns, "timestamp_ns")
    /\ i' = 0
    /\ pc' = "loop"
    /\ UNCHANGED <<rows, run_gran, validation_results, reports, summary,
                   disorders_file, cross_check, testVars>>
    /\ UNCHANGED convVars

\* mutant: a row is valid at first only if its timestamp converted
InitialResult_ValidIfConverted(idx, current_row, current_ns) ==
    [row_index                 |-> idx,
     id                        |-> current_row.id,
     routing_sequence          |-> current_row.routing_sequence,
     timestamp                 |-> current_row.timestamp,
     timestamp_ns              |-> current_ns,
     previous_id               |-> None,
     previous_routing_sequence |-> None,
     previous_timestamp        |-> None,
     previous_timestamp_ns     |-> None,
     timestamp_difference_ns   |-> None,
     is_valid                  |-> current_ns # INVALID,
     validation_message        |-> <<"First row or valid ordering">>]

\* lines 110-123: the result dict of row idx before any comparison
InitialResult(idx, current_row, current_ns) ==
    [row_index                 |-> idx,
     id                        |-> current_row.id,
     routing_sequence          |-> current_row.routing_sequence,
     timestamp                 |-> current_row.timestamp,
     timestamp_ns              |-> current_ns,
     previous_id               |-> None,
     previous_routing_sequence |-> None,
     previous_timestamp        |-> None,
     previous_timestamp_ns     |-> None,
     timestamp_difference_ns   |-> None,
     is_valid                  |-> TRUE,
     validation_message        |-> <<"First row or valid ordering">>]

(***************************************************************************)
(* The timestamp_ns column is what Series.apply infers from the converted  *)
(* values: int64 when they all fit, uint64 when none is negative and they  *)
(* all fit, else object (Python ints).  df.iloc[i] hands the row's value   *)
(* out as a scalar of that type, and the subtraction of line 133 is done   *)
(* in that type: 64-bit scalars wrap modulo 2^64.                          *)
(***************************************************************************)
TwoTo63 == MkInt(FALSE, <<5808, 5477, 368, 3372, 922>>)
TwoTo64 == MkInt(FALSE, <<1616, 955, 737, 6744, 1844>>)

FitsInt64(v) == ~BigLess(v, BigNeg(TwoTo63)) /\ BigLess(v, TwoTo63)
FitsUInt64(v) == ~v.neg /\ BigLess(v, TwoTo64)

ColumnDtype(column) ==
    IF \A k \in 1..Len(column) : FitsInt64(column[k]) THEN "int64"
    ELSE IF \A k \in 1..Len(column) : FitsUInt64(column[k]) THEN "uint64"
    ELSE "object"

\* a - b for two scalars of the column's type
Subtract(dtype, a, b) ==
    LET d == BigSub(a, b) IN
    CASE dtype = "int64" ->
             IF ~BigLess(d, TwoTo63) THEN BigSub(d, TwoTo64)
             ELSE IF BigLess(d, BigNeg(TwoTo63)) THEN BigAdd(d, TwoTo64)
             ELSE d
      [] dtype = "uint64" -> IF d.neg THEN BigAdd(d, TwoTo64) ELSE d
      [] dtype = "object" -> d

\* mutant: >= in place of >
IsDisorder_GE(current_ns, previous_ns) == ~BigLess(current_ns, previous_ns)

\* line 136: current_row['timestamp_ns'] > previous_row['timestamp_ns']
IsDisorder(current_ns, previous_ns) == BigLess(previous_ns, current_ns)

\* mutant: no equal branch, an equal row falls to the else branch
IsEqual_Never(current_ns, previous_ns) == FALSE

\* line 144: current_row['timestamp_ns'] == previous_row['timestamp_ns']
IsEqual(current_ns, previous_ns) == current_ns = previous_ns

\* lines 126-147: the comparison of row idx with row idx - 1
Compared(result, current_row, previous_row, current_ns, previous_ns) ==
    LET diff == Subtract(ColumnDtype(timestamp_ns), current_ns, previous_ns)
        with_previous ==
            [result EXCEPT
                !.previous_id               = Some(previous_row.id),
                !.previous_routing_sequence = Some(previous_row.routing_sequence),
                !.previous_timestamp        = Some(previous_row.timestamp),
                !.previous_timestamp_ns     = Some(previous_ns),
                !.timestamp_difference_ns   = Some(diff)]
    IN  IF IsDisorder(current_ns, previous_ns)
        THEN [with_previous EXCEPT
                 !.is_valid = FALSE,
                 !.validation_message =
                     <<"DISORDER DETECTED", previous_row.id,
                       previous_row.routing_sequence, current_row.id,
                       current_row.routing_sequence, diff>>]
        ELSE IF IsEqual(current_ns, previous_ns)
        THEN [with_previous EXCEPT
                 !.validation_message = <<"Timestamp equal to previous (valid)">>]
        ELSE [with_previous EXCEPT
                 !.validation_message = <<"Timestamp correctly descending", diff>>]

\* lines 108-147: the result of row idx (0-based)
RowResult(idx) ==
    LET result == InitialResult(idx, rows[idx + 1], timestamp_ns[idx + 1]) IN
    IF idx > 0
    THEN Compared(result, rows[idx + 1], rows[idx],
                  timestamp_ns[idx + 1], timestamp_ns[idx])
    ELSE result

\* mutant: the loop breaks at the first violation
LoopStep_StopAtFirst ==
    /\ pc = "loop"
    /\ i < Len(rows)
    /\ validation_results' = Append(validation_results, RowResult(i))
    /\ i' = IF RowResult(i).is_valid THEN i + 1 ELSE Len(rows)
    /\ UNCHANGED <<rows, df_columns, run_gran, pc, timestamp_ns, reports, summary,
                   disorders_file, cross_check, testVars>>
    /\ UNCHANGED convVars

\* lines 107-149: one iteration of  for i in range(len(df))
LoopStep ==
    /\ pc = "loop"
    /\ i < Len(rows)
    /\ validation_results' = Append(validation_results, RowResult(i))
    /\ i' = i + 1
    /\ UNCHANGED <<rows, df_columns, run_gran, pc, timestamp_ns, reports, summary,
                   disorders_file, cross_check, testVars>>
    /\ UNCHANGED convVars

\* line 151: the loop is exhausted, the function returns the results
Return ==
    /\ pc = "loop"
    /\ i = Len(rows)
    /\ pc' = "returned"
    /\ reports' = Append(reports, validation_results)
    /\ UNCHANGED <<rows, df_columns, run_gran, timestamp_ns, i, validation_results,
                   summary, disorders_file, cross_check, testVars>>
    /\ UNCHANGED convVars

\* line 339: (~validation_df['is_valid']).sum()
InvalidCount(results) ==
    Cardinality({k \in 1..Len(results) : ~results[k].is_valid})

\* line 340: validation_df['is_valid'].sum()
ValidCount(results) ==
    Cardinality({k \in 1..Len(results) : results[k].is_valid})

\* mutant: one disorder tolerated
OrderingPassed_Lenient(invalid_count) == invalid_count <= 1

\* line 342
OrderingPassed(invalid_count) == invalid_count = 0

\* lines 339-342 of the test.  pd.DataFrame([]) of line 151 has no column:
\* with no row result validation_df['is_valid'] raises KeyError
Summarize ==
    /\ pc = "returned"
    /\ test_result = "running"
    /\ IF validation_results = <<>>
       THEN /\ pc' = "raised"
            /\ test_result' = "KeyError"
            /\ UNCHANGED summary
       ELSE /\ summary' =
                   Some([invalid_count   |-> InvalidCount(validation_results),
                         valid_count     |-> ValidCount(validation_results),
                         ordering_passed |->
                             OrderingPassed(InvalidCount(validation_results))])
            /\ pc' = "summarized"
            /\ UNCHANGED test_result
    /\ UNCHANGED <<rows, df_columns, run_gran, timestamp_ns, i, validation_results,
                   reports, disorders_file, cross_check, schema_passed,
                   schema_errors, files, extVars>>
    /\ UNCHANGED convVars

\* mutant: the sub-report holds every row result
DisordersOf_All(results) == results

\* line 249: validation_df[~validation_df['is_valid']]
DisordersOf(results) == SelectSeq(results, LAMBDA r : ~r.is_valid)

\* lines 254-256 and 262-265: the columns of the DISORDERS_ONLY file
disorder_cols ==
    <<"id", "previous_id", "routing_sequence", "previous_routing_sequence",
      "timestamp", "previous_timestamp", "timestamp_difference_ns",
      "validation_message", "row_index">>

\* lines 249-268: the header and the lines written to the file
DisordersReport(results) ==
    LET disorders_df == DisordersOf(results) IN
    IF Len(disorders_df) > 0
    THEN [header |-> disorder_cols,
          lines  |-> [k \in 1..Len(disorders_df) |->
                         [c \in 1..Len(disorder_cols) |->
                             disorders_df[k][disorder_cols[c]]]]]
    ELSE [header |-> disorder_cols, lines |-> <<>>]

\* mutant: the schema report is written only when there are failure cases
ReportFiles_SchemaIfErrors(errors) ==
    <<"query_data", "ordering_validation", "DISORDERS_ONLY">>
        \o (IF errors # None THEN <<"schema_report">> ELSE <<>>)

\* lines 236-286: the files save_reports writes, in order; the schema report
\* holds the failure cases or the one line 'No validation errors'
ReportFiles(errors) ==
    <<"query_data", "ordering_validation", "DISORDERS_ONLY", "schema_report">>

\* line 352: save_reports(routing_dataframe, validation_df, schema_errors,
\* TEST_NAME)
SaveReports ==
    /\ pc = "summarized"
    /\ disorders_file' = Some(DisordersReport(validation_results))
    /\ files' = files \o ReportFiles(schema_errors)
    /\ pc' = "saved"
    /\ UNCHANGED <<rows, df_columns, run_gran, timestamp_ns, i, validation_results,
                   reports, summary, cross_check, schema_passed, schema_errors,
                   test_result, extVars>>
    /\ UNCHANGED convVars

\* lines 379-384: assert schema_passed, then assert ordering_passed
Asserts ==
    /\ pc = "saved"
    /\ test_result' = IF ~schema_passed THEN "AssertionError_schema"
                      ELSE IF ~summary[1].ordering_passed
                      THEN "AssertionError_ordering"
                      ELSE "passed"
    /\ pc' = "done"
    /\ UNCHANGED <<rows, df_columns, run_gran, timestamp_ns, i, validation_results,
                   reports, summary, disorders_file, cross_check, schema_passed,
                   schema_errors, files, extVars>>
    /\ UNCHANGED convVars

Next ==
    \/ ModuleCheck
    \/ SchemaValidation
    \/ ConvertColumn
    \/ LoopStep
    \/ Return
    \/ Summarize
    \/ SaveReports
    \/ Asserts

Spec == Init /\ [][Next]_vars

(***************************************************************************)
(* The test run on a query result of two rows whose timestamps are         *)
(* well-formed in the granularity of the run.                              *)
(***************************************************************************)
OrderStamps(g) ==
    LET w == subsecond_length(g)
        last == IF w = 9 THEN 999999999 ELSE 999999
    IN  { Stamp(1969, 12, 31, 23, 59, 59, Pad(last, w)),
          Stamp(1970, 1, 1, 0, 0, 0, Pad(0, w)),
          Stamp(1970, 1, 1, 0, 0, 0, Pad(1, w)),
          Stamp(2024, 2, 29, 23, 59, 59, Pad(1, w)),
          Stamp(2117, 1, 1, 0, 0, 0, Pad(last, w)),
          Stamp(2117, 1, 1, 0, 0, 1, Pad(0, w)) }

OrderInit ==
    /\ run_gran \in {"nanosecond", "microsecond"}
    /\ \E a, b \in OrderStamps(run_gran) : rows = MakeRows(<<a, b>>)
    /\ df_columns = QueryColumns
    /\ reports = <<>>
    /\ pc = "import"
    /\ timestamp_ns = <<>>
    /\ i = 0
    /\ validation_results = <<>>
    /\ summary = <<>>
    /\ disorders_file = None
    /\ cross_check = None
    /\ schema_passed = TRUE
    /\ schema_errors = None
    /\ files = <<>>
    /\ test_result = "running"
    /\ ExtIdle
    /\ ConvIdle

SpecOrder == OrderInit /\ [][Next]_vars

(***************************************************************************)
(* validate_timestamp_ordering called again by its caller on the same      *)
(* DataFrame with the same granularity.                                    *)
(***************************************************************************)
MaxRuns == 2

\* the next call starts with fresh locals; the DataFrame is the caller's,
\* as the last call left it
RunAgain ==
    /\ pc = "returned"
    /\ Len(reports) < MaxRuns
    /\ pc' = "start"
    /\ i' = 0
    /\ validation_results' = <<>>
    /\ UNCHANGED <<rows, df_columns, run_gran, timestamp_ns, reports, summary,
                   disorders_file, cross_check, testVars>>
    /\ UNCHANGED convVars

RunsNext == Next \/ RunAgain

SpecRuns == Init /\ [][RunsNext]_vars

(***************************************************************************)
(* src/time_sequence_new.py: the DataFrame-level check of timestamp_schema *)
(* on a DataFrame of rows [timestamp, timesequence].                       *)
(***************************************************************************)
MaxCrossRows == 3

\* rows of the query: a timestamp and the timesequence stored with it
CrossRows ==
    LET t2024 == Stamp(2024, 2, 29, 23, 59, 59, Pad(1, 9))
        t2117 == Stamp(2117, 1, 1, 0, 0, 1, Pad(1, 9))
        bad   == <<"n","o","t","-","a","-","t","i","m","e","s","t","a","m","p">>
        \* 1709251199000000001 and 1709251199000000002
        n2024 == MkInt(FALSE, <<1, 0, 1990, 9251, 170>>)
        m2024 == MkInt(FALSE, <<2, 0, 1990, 9251, 170>>)
        \* 4638902401000000001 and 4638902400999999489
        n2117 == MkInt(FALSE, <<1, 0, 4010, 8902, 463>>)
        m2117 == MkInt(FALSE, <<9489, 9999, 4009, 8902, 463>>)
    IN  { [timestamp |-> t2024, timesequence |-> n2024],
          [timestamp |-> t2024, timesequence |-> m2024],
          [timestamp |-> t2117, timesequence |-> n2117],
          [timestamp |-> t2117, timesequence |-> m2117],
          [timestamp |-> bad,   timesequence |-> n2024],
          [timestamp |-> bad,   timesequence |-> BigOf(-1)] }

CrossInputs == UNION { [1..n -> CrossRows] : n \in 0..MaxCrossRows }

CrossInit ==
    /\ rows \in CrossInputs
    /\ df_columns = <<"timestamp", "timesequence">>
    /\ run_gran = "nanosecond"
    /\ pc = "schema"
    /\ timestamp_ns = <<>>
    /\ i = 0
    /\ validation_results = <<>>
    /\ reports = <<>>
    /\ summary = None
    /\ disorders_file = None
    /\ cross_check = None
    /\ schema_passed = TRUE
    /\ schema_errors = None
    /\ files = <<>>
    /\ test_result = "not_run"
    /\ ExtIdle
    /\ ConvIdle

\* line 87-88: one element of df['timesequence'] == df['timestamp'].apply(...)
CrossEqual(timesequence, converted) == timesequence = converted

\* lines 86-91: (df['timesequence'] ==
\*     df['timestamp'].apply(convert_timestamp_to_nanoseconds)).all()
DataFrameCheck(df) ==
    \A k \in 1..Len(df) :
        CrossEqual(df[k].timesequence,
                   Call("time_sequence_new", df[k].timestamp, "nanosecond").value)

\* timestamp_schema.validate(df): the DataFrame-level check is evaluated
ValidateSchema ==
    /\ pc = "schema"
    /\ cross_check' = Some(DataFrameCheck(rows))
    /\ pc' = "validated"
    /\ UNCHANGED <<rows, df_columns, run_gran, timestamp_ns, i, validation_results,
                   reports, summary, disorders_file, testVars>>
    /\ UNCHANGED convVars

CrossNext == ValidateSchema

SpecCross == CrossInit /\ [][CrossNext]_vars

(***************************************************************************)
(* src/full_test.py: validate_timestamp_with_schema on a DataFrame of rows *)
(* [timestamp, timestamp_1, timesequence].                                 *)
(***************************************************************************)
MaxFullRows == 2

\* rows of the query: a timestamp written with ':' before the fraction, one
\* written with '.', and one that is no timestamp, with the timesequence
\* stored for them
FullRows ==
    LET colon == ColonStamp(1970, 1, 1, 0, 0, 1, Pad(0, 9))
        dot   == Stamp(1970, 1, 1, 0, 0, 1, Pad(0, 9))
        bad   == <<"n","o","t","-","a","-","t","i","m","e","s","t","a","m","p">>
    IN  { [timestamp |-> colon, timestamp_1 |-> colon, timesequence |-> BigOf(n)] :
              n \in {1000000000, 1000000999, 1000001000, 1000001001, 999999000} }
        \cup { [timestamp |-> dot, timestamp_1 |-> colon,
                timesequence |-> BigOf(1000000000)],
               [timestamp |-> bad, timestamp_1 |-> bad,
                timesequence |-> BigOf(-1)] }

FullInputs == UNION { [1..n -> FullRows] : n \in 0..MaxFullRows }

\* lines 24-26: ^\d{8}-\d{2}:\d{2}:\d{2}:\d{9}$
MatchesColonPattern(s) ==
    /\ Len(s) = 27
    /\ \A k \in 1..Len(s) :
           CASE k = 9               -> s[k] = "-"
             [] k \in {12, 15, 18}  -> s[k] = ":"
             [] OTHER               -> s[k] \in Digit

\* lines 28-32: pd.to_datetime(s[:8], format='%Y%m%d', errors='coerce') is
\* not NaT: a date of the calendar from 1677-09-22 to 2262-04-11
DatePartValid(s) ==
    LET d == Slice(s, 0, 8) IN
    /\ Len(d) = 8
    /\ \A k \in 1..8 : d[k] \in Digit
    /\ LET y  == PyInt(Slice(d, 0, 4)).val
           m  == PyInt(Slice(d, 4, 6)).val
           dd == PyInt(Slice(d, 6, 8)).val
       IN  /\ DatetimeOk(y, m, dd, 0, 0, 0)
           /\ ToOrdinal(y, m, dd) >= ToOrdinal(1677, 9, 22)
           /\ ToOrdinal(y, m, dd) <= ToOrdinal(2262, 4, 11)

\* lines 33-44: s.split('-')[1].split(':')[k].astype(int).between(0, hi);
\* a field that is missing or no integer makes the check fail
TimeFieldBetween(s, k, hi) ==
    LET parts == Split(s, "-") IN
    /\ Len(parts) >= 2
    /\ LET fields == Split(parts[2], ":") IN
       /\ Len(fields) >= k + 1
       /\ PyInt(fields[k + 1]).ok
       /\ PyInt(fields[k + 1]).val >= 0
       /\ PyInt(fields[k + 1]).val <= hi

\* lines 45-48: s.split(':')[3] has 9 characters
NanosecondLengthOk(s) ==
    LET parts == Split(s, ":") IN
    Len(parts) >= 4 /\ Len(parts[4]) = 9

\* lines 22-49: timestamp_checks, by the name of the error of each
TimestampCheckNames ==
    <<"format", "date", "hours", "minutes", "seconds", "nanoseconds">>

TimestampCheck(error, s) ==
    CASE error = "format"      -> MatchesColonPattern(s)
      [] error = "date"        -> DatePartValid(s)
      [] error = "hours"       -> TimeFieldBetween(s, 0, 23)
      [] error = "minutes"     -> TimeFieldBetween(s, 1, 59)
      [] error = "seconds"     -> TimeFieldBetween(s, 2, 59)
      [] error = "nanoseconds" -> NanosecondLengthOk(s)

\* the timestamp_checks that fail on a column of strings, each being
\* .all() over the column
TimestampChecksFailed(column, name) ==
    LET fails(c) == \E k \in 1..Len(column) :
                        ~TimestampCheck(TimestampCheckNames[c], column[k])
    IN  [c \in 1..Cardinality({c \in 1..6 : fails(c)}) |->
            <<name, TimestampCheckNames[
                CHOOSE d \in 1..6 :
                    /\ fails(d)
                    /\ Cardinality({e \in 1..d : fails(e)}) = c]>>]

\* lines 53-69: the failure cases of timestamp_schema.validate(df, lazy=True)
FullFailureCases(df) ==
    TimestampChecksFailed([k \in 1..Len(df) |-> df[k].timestamp], "timestamp")
    \o TimestampChecksFailed([k \in 1..Len(df) |-> df[k].timestamp_1],
                             "timestamp_1")
    \o (IF \A k \in 1..Len(df) : BigLess(Zero, df[k].timesequence) THEN <<>>
        ELSE <<(<<"timesequence", "positive">>)>>)

\* lines 115-124: the results dict before the validation; its 'timestamp'
\* entry, the wall-clock time of the call, is left out
InitialResults(df) ==
    [schema_validation_passed      |-> FALSE,
     schema_errors                 |-> None,
     granularity_validation_passed |-> FALSE,
     total_rows                    |-> Len(df),
     valid_rows                    |-> 0,
     invalid_rows                  |-> 0,
     validation_details            |-> <<>>]

FullInit ==
    /\ rows \in FullInputs
    /\ df_columns = <<"timestamp", "timestamp_1", "timesequence">>
    /\ run_gran = "nanosecond"
    /\ pc = "full_schema"
    /\ timestamp_ns = <<>>
    /\ i = 0
    /\ validation_results = <<>>
    /\ reports = <<>>
    /\ summary = None
    /\ disorders_file = None
    /\ cross_check = None
    /\ schema_passed = TRUE
    /\ schema_errors = None
    /\ files = <<>>
    /\ test_result = "not_run"
    /\ full_results = Some(InitialResults(rows))
    /\ ZephyrIdle
    /\ ConvIdle

\* lines 126-132: timestamp_schema.validate(df, lazy=True) in try / except
\* SchemaErrors; the loop of line 135 follows either way
FullSchemaStep ==
    /\ pc = "full_schema"
    /\ LET failure_cases == FullFailureCases(rows) IN
       full_results' =
           IF failure_cases = <<>>
           THEN Some([full_results[1] EXCEPT !.schema_validation_passed = TRUE])
           ELSE Some([full_results[1] EXCEPT
                         !.schema_errors = Some(failure_cases)])
    /\ i' = 0
    /\ pc' = "full_loop"
    /\ UNCHANGED <<rows, df_columns, run_gran, timestamp_ns, validation_results,
                   reports, summary, disorders_file, cross_check, schema_passed,
                   schema_errors, files, test_result, zephyrVars>>
    /\ UNCHANGED convVars

\* abs(x)
BigAbs(x) == MkInt(FALSE, x.mag)

\* line 147: difference < 1000
WithinTolerance(difference) == BigLess(difference, BigOf(1000))

\* lines 149-156: the record of a row whose conversion returned expected
Converted(idx, row, expected, difference) ==
    [row_index            |-> idx,
     timestamp            |-> row.timestamp,
     timesequence         |-> row.timesequence,
     expected_nanoseconds |-> Some(expected),
     difference_ns        |-> Some(difference),
     error                |-> None,
     is_valid             |-> WithinTolerance(difference)]

\* lines 163-170: the record of a row whose conversion raised
Failed(idx, row) ==
    [row_index            |-> idx,
     timestamp            |-> row.timestamp,
     timesequence         |-> row.timesequence,
     expected_nanoseconds |-> None,
     difference_ns        |-> None,
     error                |-> Some("Exception"),
     is_valid             |-> FALSE]

\* lines 139-170: the validation_details record of one row, in a sequence,
\* expected being the outcome of convert_timestamp_to_nanoseconds(timestamp)
DetailOf(idx, row, expected) ==
    IF expected.state = "raised" THEN <<Failed(idx, row)>>
    ELSE <<Converted(idx, row, expected.value,
                     BigAbs(BigSub(row.timesequence, expected.value)))>>

\* lines 135-170: one iteration of  for idx, row in df.iterrows()
FullLoopStep ==
    /\ pc = "full_loop"
    /\ i < Len(rows)
    /\ \E detail \in { DetailOf(i, rows[i + 1],
                 Call("full_test", rows[i + 1].timestamp, "nanosecond")) } :
        \E r \in { full_results[1] } :
           full_results' =
               Some([r EXCEPT
                   !.validation_details = r.validation_details \o detail,
                   !.valid_rows = r.valid_rows +
                       Cardinality({k \in 1..Len(detail) : detail[k].is_valid}),
                   !.invalid_rows = r.invalid_rows +
                       (IF detail = <<>> \/ ~detail[1].is_valid THEN 1 ELSE 0)])
    /\ i' = i + 1
    /\ UNCHANGED <<rows, df_columns, run_gran, pc, timestamp_ns,
                   validation_results, reports, summary, disorders_file,
                   cross_check, schema_passed, schema_errors, files, test_result,
                   zephyrVars>>
    /\ UNCHANGED convVars

\* lines 172-176: the loop is exhausted; the flag is set, the dict returned
FullReturn ==
    /\ pc = "full_loop"
    /\ i = Len(rows)
    /\ full_results' =
           Some([full_results[1] EXCEPT
                    !.granularity_validation_passed =
                        (full_results[1].invalid_rows = 0)])
    /\ pc' = "full_returned"
    /\ UNCHANGED <<rows, df_columns, run_gran, timestamp_ns, i, validation_results,
                   reports, summary, disorders_file, cross_check, schema_passed,
                   schema_errors, files, test_result, zephyrVars>>
    /\ UNCHANGED convVars

FullNext == FullSchemaStep \/ FullLoopStep \/ FullReturn

SpecFull == FullInit /\ [][FullNext]_vars

(***************************************************************************)
(* src/zephyr_upload.py: upload_pytest_results and upload_json_results of  *)
(* ZephyrUploader.  The server answers each POST with a JSON body holding  *)
(* a key, or the request fails with a RequestException.                    *)
(***************************************************************************)
MaxCases == 2

\* the variables of the validators, which the Zephyr scripts do not touch
valRest ==
    <<rows, df_columns, run_gran, timestamp_ns, validation_results, reports,
      summary, disorders_file, cross_check, schema_passed, schema_errors, files,
      test_result, full_results>>

\* <testcase> elements of a JUnit file: the name and the child element
JUnitCases ==
    { [name |-> "test_a", child |-> "none",    status |-> None],
      [name |-> "test_b", child |-> "failure", status |-> None],
      [name |-> "test_c", child |-> "skipped", status |-> None] }

\* entries of "test_cases" in a JSON file, with or without a "status"
JsonCases ==
    { [name |-> "case_a", child |-> "none", status |-> Some("Pass")],
      [name |-> "case_b", child |-> "none", status |-> None] }

\* the file given: one that cannot be read or parsed, a JSON document that
\* is no object (a list), or a document with its test cases
UploadInputs ==
    { [kind |-> k, doc |-> "unreadable", cases |-> <<>>] : k \in {"junit", "json"} }
    \cup { [kind |-> "json", doc |-> "list", cases |-> <<>>] }
    \cup { [kind |-> "junit", doc |-> "parsed", cases |-> c] :
               c \in UNION { [1..n -> JUnitCases] : n \in 0..MaxCases } }
    \cup { [kind |-> "json", doc |-> "parsed", cases |-> c] :
               c \in UNION { [1..n -> JsonCases] : n \in 0..MaxCases } }

UploadInit ==
    /\ upload \in UploadInputs
    /\ requests = <<>>
    /\ created_tests = <<>>
    /\ upload_ret = None
    /\ pc = "up_parse"
    /\ i = 0
    /\ rows = <<>>
    /\ df_columns = <<>>
    /\ run_gran = "nanosecond"
    /\ timestamp_ns = <<>>
    /\ validation_results = <<>>
    /\ reports = <<>>
    /\ summary = None
    /\ disorders_file = None
    /\ cross_check = None
    /\ schema_passed = TRUE
    /\ schema_errors = None
    /\ files = <<>>
    /\ test_result = "not_run"
    /\ full_results = None
    /\ ConvIdle

\* lines 228-233 and 317-329: the file is parsed; upload_json_results reads
\* data.get(...) of the document, which raises AttributeError on a list,
\* and returns False when it lists no test case
ParseResults ==
    /\ pc = "up_parse"
    /\ IF upload.doc = "unreadable"
       THEN upload_ret' = Some("False") /\ pc' = "up_done"
       ELSE IF upload.doc = "list"
       THEN upload_ret' = Some("AttributeError") /\ pc' = "up_done"
       ELSE IF upload.kind = "json" /\ upload.cases = <<>>
       THEN upload_ret' = Some("False") /\ pc' = "up_done"
       ELSE UNCHANGED upload_ret /\ pc' = "up_cycle"
    /\ UNCHANGED <<upload, requests, created_tests, i>>
    /\ UNCHANGED valRest
    /\ UNCHANGED convVars

\* a request as the server saw it and answered it
Request(endpoint, name, test_case_key, test_cycle_key, status, ok, key) ==
    [endpoint     |-> endpoint,
     name         |-> name,
     testCaseKey  |-> test_case_key,
     testCycleKey |-> test_cycle_key,
     statusName   |-> status,
     ok           |-> ok,
     key          |-> IF ok THEN Some(key) ELSE None]

\* the key the server gives to the object it creates
FreshKey(endpoint) ==
    Cardinality({k \in 1..Len(requests) :
                    requests[k].endpoint = endpoint /\ requests[k].ok}) + 1

\* mutant: the result of create_test_cycle is not looked at
CreateCycle_Unchecked ==
    /\ pc = "up_cycle"
    /\ \E ok \in BOOLEAN :
           requests' = Append(requests,
               Request("testcycles", None, None, None, None, ok,
                       FreshKey("testcycles")))
    /\ pc' = "up_case"
    /\ i' = 0
    /\ UNCHANGED <<upload, created_tests, upload_ret>>
    /\ UNCHANGED valRest
    /\ UNCHANGED convVars

\* lines 236-243 and 331-336: create_test_cycle (lines 111-151) posts to
\* /testcycles; None is returned when the request fails, and the upload
\* returns False
CreateCycle ==
    /\ pc = "up_cycle"
    /\ \E ok \in BOOLEAN :
           /\ requests' = Append(requests,
                  Request("testcycles", None, None, None, None, ok,
                          FreshKey("testcycles")))
           /\ IF ok
              THEN pc' = "up_case" /\ UNCHANGED upload_ret
              ELSE pc' = "up_done" /\ upload_ret' = Some("False")
    /\ i' = 0
    /\ UNCHANGED <<upload, created_tests>>
    /\ UNCHANGED valRest
    /\ UNCHANGED convVars

\* mutant: the execution is created whatever create_test_case returned
AfterTestCase_Always(test_case) == "up_exec"

\* lines 277 and 345: if test_case:
AfterTestCase(test_case) == IF test_case # None THEN "up_exec" ELSE "up_case"

\* lines 249-276 and 339-345: the next test case of the file is created;
\* create_test_case (lines 53-109) posts to /testcases and returns the
\* response, or None when the request fails
CreateTestCase ==
    /\ pc = "up_case"
    /\ i < Len(upload.cases)
    /\ \E ok \in BOOLEAN :
           /\ requests' = Append(requests,
                  Request("testcases", Some(upload.cases[i + 1].name), None,
                          None, None, ok, 100 + FreshKey("testcases")))
           /\ pc' = AfterTestCase(requests'[Len(requests')].key)
           /\ i' = IF pc' = "up_case" THEN i + 1 ELSE i
    /\ UNCHANGED <<upload, created_tests, upload_ret>>
    /\ UNCHANGED valRest
    /\ UNCHANGED convVars

\* lines 254-266: the status of a <testcase>; line 353: tc.get('status',
\* 'Not Executed')
StatusOf(kind, tc) ==
    IF kind = "junit"
    THEN CASE tc.child = "failure" -> "Fail"
           [] tc.child = "skipped" -> "Not Executed"
           [] OTHER                -> "Pass"
    ELSE IF tc.status # None THEN tc.status[1] ELSE "Not Executed"

\* lines 278-286 and 346-360: create_test_execution (lines 153-209) posts
\* to /testexecutions with test_case.get('key') and cycle.get('key'); its
\* result is not looked at, but to count the successes
CreateExecution ==
    /\ pc = "up_exec"
    /\ \E ok \in BOOLEAN :
           requests' = Append(requests,
               Request("testexecutions", None, requests[Len(requests)].key,
                       requests[1].key, Some(StatusOf(upload.kind, upload.cases[i + 1])),
                       ok, 1000 + FreshKey("testexecutions")))
    /\ i' = i + 1
    /\ pc' = "up_case"
    /\ UNCHANGED <<upload, created_tests, upload_ret>>
    /\ UNCHANGED valRest
    /\ UNCHANGED convVars

\* lines 288-296 and 362-368: the summary is printed, True is returned
FinishUpload ==
    /\ pc = "up_case"
    /\ i = Len(upload.cases)
    /\ upload_ret' = Some("True")
    /\ pc' = "up_done"
    /\ UNCHANGED <<upload, requests, created_tests, i>>
    /\ UNCHANGED valRest
    /\ UNCHANGED convVars

UploadNext ==
    \/ ParseResults
    \/ CreateCycle
    \/ CreateTestCase
    \/ CreateExecution
    \/ FinishUpload

SpecUpload == UploadInit /\ [][UploadNext]_vars

\* ---------------------------------------------------------------------
\* create_zephyr_tests.py: ZephyrTestCreator.create_test_cases_bulk
\* ---------------------------------------------------------------------

\* test case configurations: keyword arguments create_test_case accepts, or
\* a dict with a key it does not accept (the call raises TypeError)
TestConfigs ==
    { [name |-> n, args |-> a] :
          n \in {"login", "profile"}, a \in {"accepted", "unexpected"} }

BulkInputs ==
    { [kind |-> "bulk", doc |-> "parsed", cases |-> c] :
          c \in UNION { [1..n -> TestConfigs] : n \in 0..MaxCases } }

\* line 150: created_tests = []
BulkInit ==
    /\ upload \in BulkInputs
    /\ requests = <<>>
    /\ created_tests = <<>>
    /\ upload_ret = None
    /\ pc = "bulk_loop"
    /\ i = 0
    /\ rows = <<>>
    /\ df_columns = <<>>
    /\ run_gran = "nanosecond"
    /\ timestamp_ns = <<>>
    /\ validation_results = <<>>
    /\ reports = <<>>
    /\ summary = None
    /\ disorders_file = None
    /\ cross_check = None
    /\ schema_passed = TRUE
    /\ schema_errors = None
    /\ files = <<>>
    /\ test_result = "not_run"
    /\ full_results = None
    /\ ConvIdle

\* what one call of create_test_case can end in: the test case returned
\* (line 126), the HTTPError of raise_for_status re-raised (lines 128-133),
\* or an exception of session.post that is not caught there
Outcomes == {"created", "HTTPError", "ConnectionError"}

\* mutant: the loop is left at the first failure
AfterFailure_Break(idx) == Len(upload.cases)

\* lines 157-159: except Exception ... continue
AfterFailure(idx) == idx

\* lines 152-159: one turn of the loop; create_test_case (lines 47-135) is
\* called with the configuration as keyword arguments, posts to /testcases
\* and returns response.json(), and whatever it raises is caught
BulkCreate ==
    /\ pc = "bulk_loop"
    /\ i < Len(upload.cases)
    /\ \E test_config \in {upload.cases[i + 1]} :
          IF test_config.args = "unexpected"
          THEN /\ i' = AfterFailure(i + 1)
               /\ UNCHANGED <<requests, created_tests>>
          ELSE \E outcome \in Outcomes :
                  /\ requests' = Append(requests,
                         Request("testcases", Some(test_config.name), None,
                                 None, None, outcome = "created",
                                 100 + FreshKey("testcases")))
                  /\ IF outcome = "created"
                     THEN /\ created_tests' = Append(created_tests,
                                 [key  |-> 100 + FreshKey("testcases"),
                                  name |-> test_config.name])
                          /\ i' = i + 1
                     ELSE /\ UNCHANGED created_tests
                          /\ i' = AfterFailure(i + 1)
    /\ UNCHANGED <<upload, upload_ret, pc>>
    /\ UNCHANGED valRest
    /\ UNCHANGED convVars

\* line 161: return created_tests
BulkReturn ==
    /\ pc = "bulk_loop"
    /\ i = Len(upload.cases)
    /\ upload_ret' = Some(created_tests)
    /\ pc' = "bulk_done"
    /\ UNCHANGED <<upload, requests, created_tests, i>>
    /\ UNCHANGED valRest
    /\ UNCHANGED convVars

BulkNext ==
    \/ BulkCreate
    \/ BulkReturn

SpecBulk == BulkInit /\ [][BulkNext]_vars

(***************************************************************************)
(* Properties of the ordering validator, checked under Spec.               *)
(***************************************************************************)
\* the canonical value of input row k (1-based), from the input itself
Canon(k) == convert_timestamp_to_nanoseconds(rows[k].timestamp, run_gran)

\* the canonical values of the input rows do not increase from k - 1 to k
NonIncreasingAt(k) == ~BigLess(Canon(k - 1), Canon(k))

Ns(n) == Stamp(1970, 1, 1, 0, 0, 0, Pad(n, 9))
NotATimestamp == <<"n","o","t","-","a","-","t","i","m","e","s","t","a","m","p">>

Stamps == [k \in 1..Len(rows) |-> rows[k].timestamp]

\* C1: every reported row after the first is invalid exactly when its
\* canonical value is strictly greater than its predecessor's, and valid
\* when it is less or equal.
C1_InvalidIffIncreased ==
    \A k \in 2..Len(validation_results) :
        /\ validation_results[k].is_valid = FALSE <=> BigLess(Canon(k - 1), Canon(k))
        /\ NonIncreasingAt(k) => validation_results[k].is_valid = TRUE

\* C1 witness: an increase reported invalid, then an equal value reported valid
C1_Witness ==
    /\ run_gran = "nanosecond"
    /\ Stamps = <<Ns(100), Ns(200), Ns(200)>>
    /\ Len(validation_results) = 3
    /\ ~validation_results[2].is_valid
    /\ validation_results[3].is_valid

\* C2: ordering_passed is true exactly when no row result is invalid, which
\* is exactly when the canonical values never increase between adjacent
\* rows; keys [30, 20, 10] with values [300, 200, 100] pass with all valid.
C2_OrderingPassedIffNonIncreasing ==
    summary # None =>
        LET sm == summary[1] IN
        /\ sm.ordering_passed <=>
               (\A k \in 1..Len(validation_results) : validation_results[k].is_valid)
        /\ sm.ordering_passed <=> (sm.invalid_count = 0)
        /\ sm.ordering_passed <=> (\A k \in 2..Len(rows) : NonIncreasingAt(k))
        /\ (run_gran = "nanosecond" /\ Stamps = <<Ns(300), Ns(200), Ns(100)>>) =>
               /\ [k \in 1..3 |-> rows[k].routing_sequence] = <<30, 20, 10>>
               /\ [k \in 1..3 |-> validation_results[k].timestamp_ns]
                      = <<BigOf(300), BigOf(200), BigOf(100)>>
               /\ sm.ordering_passed
               /\ \A k \in 1..3 : validation_results[k].is_valid

\* C2 witness: the run of the example has passed
C2_Witness ==
    /\ summary # None
    /\ run_gran = "nanosecond"
    /\ Stamps = <<Ns(300), Ns(200), Ns(100)>>
    /\ summary[1].ordering_passed

\* C3: the validator reports every row: result k is that of row k, in
\* order, while the loop runs; on return there are exactly n results with
\* row_index 0..n-1, every increase is reported invalid, and the valid and
\* invalid counts add up to n.
C3_FullPass ==
    /\ pc = "loop" => Len(validation_results) = i
    /\ \A k \in 1..Len(validation_results) :
           /\ validation_results[k].row_index = k - 1
           /\ validation_results[k].id = rows[k].id
    /\ pc \in {"returned", "summarized"} =>
           /\ Len(validation_results) = Len(rows)
           /\ \A k \in 2..Len(rows) :
                  BigLess(Canon(k - 1), Canon(k)) => ~validation_results[k].is_valid
    /\ summary # None =>
           summary[1].valid_count + summary[1].invalid_count = Len(rows)

\* C3 witness: a run with two violations has returned all its rows
C3_Witness ==
    /\ pc = "summarized"
    /\ Len(rows) = 3
    /\ ~validation_results[2].is_valid
    /\ ~validation_results[3].is_valid
    /\ summary[1].invalid_count = 2
    /\ summary[1].valid_count = 1

\* the conversion of input row k failed: the try block raised
ConversionFailed(k) == CheckOrderBody(rows[k].timestamp, run_gran).raised

OrderingMessages ==
    {"First row or valid ordering", "Timestamp equal to previous (valid)",
     "Timestamp correctly descending", "DISORDER DETECTED"}

\* C4: every row whose timestamp fails conversion is reported invalid with a
\* diagnostic that is none of the ordering messages.
C4_InvalidTimestampReported ==
    \A k \in 1..Len(validation_results) :
        ConversionFailed(k) =>
            /\ ~validation_results[k].is_valid
            /\ validation_results[k].validation_message[1] \notin OrderingMessages

\* C5: row 0 is reported valid whatever its timestamp, without comparison
\* and with every previous_* field and the difference empty.
C5_FirstRowValid ==
    Len(validation_results) >= 1 =>
        LET r == validation_results[1] IN
        /\ r.is_valid
        /\ r.validation_message = <<"First row or valid ordering">>
        /\ r.previous_id = None
        /\ r.previous_routing_sequence = None
        /\ r.previous_timestamp = None
        /\ r.previous_timestamp_ns = None
        /\ r.timestamp_difference_ns = None

\* C5 witness: a first row whose timestamp does not convert is reported valid
C5_Witness ==
    /\ Len(validation_results) >= 1
    /\ rows[1].timestamp = NotATimestamp
    /\ validation_results[1].timestamp_ns = INVALID
    /\ validation_results[1].is_valid

(***************************************************************************)
(* Properties of the converter, checked under SpecConv.  The reading of a  *)
(* timestamp below is by character position and by its own calendar        *)
(* arithmetic, not by the converter's.                                     *)
(***************************************************************************)
AllDigits(s) == \A k \in 1..Len(s) : s[k] \in Digit
Num(s) == DigitsValue(s, 0)

\* YYYYMMDD-HH:MM:SS. followed by w more characters, all fields digits
CanonicalShape(s, w) ==
    /\ IsStr(s)
    /\ Len(s) = 18 + w
    /\ s[9] = "-" /\ s[12] = ":" /\ s[15] = ":" /\ s[18] = "."
    /\ \A k \in (1..Len(s)) \ {9, 12, 15, 18} : s[k] \in Digit

MonthLength(y, m) ==
    LET leap == (y % 400 = 0) \/ (y % 4 = 0 /\ y % 100 # 0)
    IN  IF m = 2 /\ leap THEN 29
        ELSE <<31, 28, 31, 30, 31, 30, 31, 31, 30, 31, 30, 31>>[m]

InRange(y, m, d, hh, mi, sec) ==
    /\ y >= 1 /\ y <= 9999
    /\ m >= 1 /\ m <= 12
    /\ d >= 1 /\ d <= MonthLength(y, m)
    /\ hh <= 23 /\ mi <= 59 /\ sec <= 59

\* days from 1970-01-01 to the civil date y-m-d
CivilDays(y, m, d) ==
    LET yy  == IF m <= 2 THEN y - 1 ELSE y
        era == yy \div 400
        yoe == yy - era * 400
        mp  == IF m > 2 THEN m - 3 ELSE m + 9
        doy == ((153 * mp + 2) \div 5) + d - 1
        doe == yoe * 365 + (yoe \div 4) - (yoe \div 100) + doy
    IN  era * 146097 + doe - 719468

FieldsInRange(s) ==
    InRange(Num(Slice(s, 0, 4)), Num(Slice(s, 4, 6)), Num(Slice(s, 6, 8)),
            Num(Slice(s, 9, 11)), Num(Slice(s, 12, 14)), Num(Slice(s, 15, 17)))

WellFormed(s, w) == CanonicalShape(s, w) /\ FieldsInRange(s)

\* whole seconds between 1970-01-01T00:00:00 and the date and time of s
WholeSeconds(s) ==
    BigAdd(BigMulSmall(BigOf(CivilDays(Num(Slice(s, 0, 4)), Num(Slice(s, 4, 6)),
                                       Num(Slice(s, 6, 8)))), 86400),
           BigOf(Num(Slice(s, 9, 11)) * 3600 + Num(Slice(s, 12, 14)) * 60
                     + Num(Slice(s, 15, 17))))

\* whole seconds x 1,000,000,000 + the w-digit fraction in nanoseconds
ExactNs(s, w) ==
    BigAdd(BigTimesBillion(WholeSeconds(s)),
           BigOf(Num(Slice(s, 18, 18 + w)) * (IF w = 6 THEN 1000 ELSE 1)))

Returned == ret.state = "returned"

BodyOf(c) ==
    CASE c = "check_order"       -> CheckOrderBody(ts, granularity)
      [] c = "convert_to_unix"   -> ConvertToUnixBody(ts)
      [] c = "time_sequence_new" -> TimeSequenceNewBody(ts)
      [] c = "full_test"         -> FullTestBody(ts)

\* C6: a call of the converter of check_order.py or convert_to_unix.py
\* never ends in an exception: whenever a statement of the body raises the
\* call returns -1, as it does for "not-a-timestamp" and for a non-string.
C6_NeverRaises ==
    (ret.state # "pending" /\ copy \in {"check_order", "convert_to_unix"}) =>
        /\ ret.state = "returned"
        /\ BodyOf(copy).raised => ret.value = INVALID
        /\ ts \in {NotATimestamp, NoneValue} => ret.value = INVALID

\* C6 witness: the call on "not-a-timestamp" has returned -1
C6_Witness ==
    /\ ts = NotATimestamp
    /\ copy = "check_order"
    /\ BodyOf(copy).raised
    /\ ret = [state |-> "returned", value |-> INVALID]

\* C7: for every well-formed nanosecond timestamp the canonical value is
\* exactly whole seconds x 1,000,000,000 + the 9-digit fraction; the values
\* of 19700101-00:00:00.000000001 and 19700101-00:00:01.000000000 are 1 and
\* 1,000,000,000.
C7_ExactNanoseconds ==
    (Returned /\ copy = "check_order" /\ granularity = "nanosecond"
        /\ WellFormed(ts, 9)) =>
        /\ ret.value = ExactNs(ts, 9)
        /\ ts = Stamp(1970, 1, 1, 0, 0, 0, Pad(1, 9)) => ret.value = BigOf(1)
        /\ ts = Stamp(1970, 1, 1, 0, 0, 1, Pad(0, 9)) => ret.value = BigOf(1000000000)

\* C8: in microsecond granularity the canonical value of a well-formed
\* timestamp is whole seconds x 1,000,000,000 + microseconds x 1000, a
\* multiple of 1000; the value of 19700101-00:00:00.000001 is 1000.
C8_MicrosecondScaled ==
    (Returned /\ copy = "check_order" /\ granularity = "microsecond"
        /\ WellFormed(ts, 6)) =>
        /\ ret.value = ExactNs(ts, 6)
        /\ Limb(ret.value.mag, 1) % 1000 = 0
        /\ ts = Stamp(1970, 1, 1, 0, 0, 0, Pad(1, 6)) => ret.value = BigOf(1000)

\* a well-formed date and time followed by a fraction of one or more digits
WellFormedAnyFraction(s) ==
    /\ IsStr(s)
    /\ Len(s) >= 19
    /\ CanonicalShape(Slice(s, 0, 18), 0)
    /\ AllDigits(Slice(s, 18, Len(s)))
    /\ FieldsInRange(s)

\* s with its fraction padded on the right with "0", or cut, to 9 digits
FractionToNine(s) ==
    Slice(s, 0, 18) \o Slice(LJust(Slice(s, 18, Len(s)), 9, "0"), 0, 9)

\* C9: in every copy the fraction is read as a fixed-width digit string: a
\* fraction of another width gives the value of the same timestamp written
\* with the fraction padded with "0", or cut, to 9 digits; ".5" is
\* 500,000,000 ns.
C9_FractionFixedWidth ==
    (Returned /\ granularity = "nanosecond" /\ WellFormedAnyFraction(ts)) =>
        /\ ret.value = Call(copy, FractionToNine(ts), "nanosecond").value
        /\ ts = Stamp(1970, 1, 1, 0, 0, 0, <<"5">>) => ret.value = BigOf(500000000)

Count(s, c) == Cardinality({k \in 1..Len(s) : s[k] = c})

Width(gran) == IF gran = "microsecond" THEN 6 ELSE 9

\* s has the outline date-hour:minute:second.fraction, whatever its fields
Outlined(s) ==
    /\ IsStr(s)
    /\ Count(s, "-") = 1
    /\ Len(Split(Split(s, "-")[2], ":")) = 3
    /\ Count(Split(Split(s, "-")[2], ":")[3], ".") = 1

DateOf(s)     == Split(s, "-")[1]
HourOf(s)     == Split(Split(s, "-")[2], ":")[1]
MinuteOf(s)   == Split(Split(s, "-")[2], ":")[2]
SecondOf(s)   == Split(Split(Split(s, "-")[2], ":")[3], ".")[1]
FractionOf(s) == Split(Split(Split(s, "-")[2], ":")[3], ".")[2]

Numeric(c) == c # <<>> /\ AllDigits(c)

\* a parse error as the claim lists them: a date part that is not 8 digits,
\* a fraction not of the granularity's width, a non-numeric component, or
\* an out-of-range month, day, hour, minute or second
HasParseError(s, w) ==
    /\ Outlined(s)
    /\ \/ Len(DateOf(s)) # 8
       \/ Len(FractionOf(s)) # w
       \/ \E c \in {DateOf(s), HourOf(s), MinuteOf(s), SecondOf(s), FractionOf(s)} :
              ~Numeric(c)
       \/ /\ Len(DateOf(s)) = 8
          /\ \A c \in {DateOf(s), HourOf(s), MinuteOf(s), SecondOf(s)} : Numeric(c)
          /\ ~InRange(Num(Slice(DateOf(s), 0, 4)), Num(Slice(DateOf(s), 4, 6)),
                      Num(Slice(DateOf(s), 6, 8)), Num(HourOf(s)),
                      Num(MinuteOf(s)), Num(SecondOf(s)))

\* C10 as stated: every timestamp with a parse error, a wrong field width
\* included, is converted to -1.
C10_ParseErrorsInvalid ==
    (Returned /\ copy = "check_order"
        /\ granularity \in {"nanosecond", "microsecond"}
        /\ HasParseError(ts, Width(granularity))) =>
        ret.value = INVALID

\* the characters an integer literal may hold
LiteralChars == Digit \cup {"+", "_"} \cup Whitespace

\* the date characters 1-4, 5-6, 7-8, the hour, minute and second, and the
\* first w characters of the fraction padded with "0"
FieldsRead(s, w) ==
    LET time_components == Split(Split(s, "-")[2], ":")
        last == Split(time_components[3], ".")
    IN  <<Slice(DateOf(s), 0, 4), Slice(DateOf(s), 4, 6), Slice(DateOf(s), 6, 8),
          time_components[1], time_components[2], last[1],
          Slice(LJust(last[2], w, "0"), 0, w)>>

\* a malformed split, an empty field or a character no integer literal
\* holds in a position that is read, or an out-of-range field
Rejected(s, w) ==
    \/ ~IsStr(s)
    \/ Count(s, "-") # 1
    \/ Len(Split(Split(s, "-")[2], ":")) < 3
    \/ Count(Split(Split(s, "-")[2], ":")[3], ".") = 0
    \/ LET f == FieldsRead(s, w) IN
         \/ \E k \in 1..7 :
                f[k] = <<>> \/ \E j \in 1..Len(f[k]) : f[k][j] \notin LiteralChars
         \/ /\ \A k \in 1..6 : Numeric(f[k])
            /\ ~InRange(Num(f[1]), Num(f[2]), Num(f[3]), Num(f[4]), Num(f[5]),
                        Num(f[6]))

\* C10 amended: every timestamp with a malformed split, an empty or
\* non-numeric field where the converter reads, or an out-of-range year,
\* month, day, hour, minute or second is converted to -1; a wrong field
\* width alone is not a parse error.
C10_RejectedInputsInvalid ==
    (Returned /\ copy = "check_order"
        /\ granularity \in {"nanosecond", "microsecond"}
        /\ Rejected(ts, Width(granularity))) =>
        ret.value = INVALID

\* C10 witness: hour 24 has been converted to -1
C10_Witness ==
    /\ Returned
    /\ copy = "check_order"
    /\ granularity = "nanosecond"
    /\ ts = Fmt(Pad(19700101, 8), Pad(24, 2), Pad(0, 2), Pad(0, 2), Pad(5, 9))
    /\ Rejected(ts, 9)
    /\ ret.value = INVALID

\* s with the '.' before the fraction written as ':'
WithColon(s) == [k \in 1..Len(s) |-> IF k = 18 THEN ":" ELSE s[k]]

\* C11: for every well-formed date, time and 9-digit fraction the converter
\* gives the string written with ':' before the fraction the same value as
\* the string written with '.'.
C11_EitherSeparator ==
    (ret.state # "pending" /\ granularity = "nanosecond" /\ WellFormed(ts, 9)) =>
        Call(copy, WithColon(ts), granularity) = ret

\* C18: the converters of check_order.py and convert_to_unix.py give every
\* well-formed timestamp dated 1970-01-01T00:00:00 or later a non-negative
\* value, never -1; for a timestamp whose year is 1970 or later the value
\* -1 is returned only when the conversion failed.
C18_NonNegativeFrom1970 ==
    (Returned /\ copy \in {"check_order", "convert_to_unix"}) =>
        /\ (granularity \in {"nanosecond", "microsecond"}
               /\ WellFormed(ts, Width(granularity))
               /\ Num(Slice(ts, 0, 4)) >= 1970) =>
               /\ ~BodyOf(copy).raised
               /\ ~ret.value.neg
               /\ ret.value # INVALID
        /\ (ret.value = INVALID /\ ~ParseFields(ts).raised
               /\ ParseFields(ts).year >= 1970) =>
               BodyOf(copy).raised

\* C21: the value the converter returns for a timestamp it accepts lies
\* between -2^63 and 2^63 - 1.
C21_FitsSigned64 ==
    (Returned /\ copy = "check_order" /\ ~BodyOf(copy).raised) =>
        FitsInt64(ret.value)

ThreeCopies == {"check_order", "convert_to_unix", "time_sequence_new"}

\* C26: on a well-formed timestamp with '.' before exactly 9 fraction
\* digits the converters of check_order.py (granularity 'nanosecond'),
\* convert_to_unix.py and time_sequence_new.py return the same value.
C26_CopiesAgree ==
    (Returned /\ copy \in ThreeCopies /\ granularity = "nanosecond"
        /\ WellFormed(ts, 9)) =>
        \A c \in ThreeCopies : Call(c, ts, "nanosecond") = ret

(***************************************************************************)
(* Properties of repeated converter calls, checked under SpecCalls.        *)
(***************************************************************************)
SameArguments(a, b) ==
    a.copy = b.copy /\ a.ts = b.ts /\ a.granularity = b.granularity

C12_UnknownGranularityRejected ==
    run_gran \notin {"nanosecond", "microsecond"} =>
        /\ timestamp_ns = <<>>
        /\ validation_results = <<>>

\* the canonical values of the input rows strictly increase from row to row
StrictlyIncreasing == \A k \in 2..Len(rows) : BigLess(Canon(k - 1), Canon(k))

\* C13: when the canonical values strictly increase down the rows, every
\* row but row 0 is reported invalid against its immediate predecessor, and
\* its timestamp_difference_ns is the positive amount of the increase; keys
\* [30, 20, 10] with values [100, 200, 300] give exactly two invalid rows,
\* at indices 1 and 2, with differences 100 and 100.
C13_IncreasingRowsFlagged ==
    (pc \in {"returned", "summarized"} /\ StrictlyIncreasing) =>
        /\ \A k \in 2..Len(rows) :
               LET r == validation_results[k] IN
               /\ ~r.is_valid
               /\ r.previous_id = Some(rows[k - 1].id)
               /\ r.previous_timestamp_ns = Some(Canon(k - 1))
               /\ r.timestamp_difference_ns = Some(BigSub(Canon(k), Canon(k - 1)))
               /\ BigLess(Zero, r.timestamp_difference_ns[1])
        /\ Len(rows) >= 1 => validation_results[1].is_valid
        /\ (run_gran = "nanosecond" /\ Stamps = <<Ns(100), Ns(200), Ns(300)>>) =>
               /\ [k \in 1..3 |-> rows[k].routing_sequence] = <<30, 20, 10>>
               /\ [k \in 1..3 |-> validation_results[k].is_valid]
                      = <<TRUE, FALSE, FALSE>>
               /\ validation_results[2].timestamp_difference_ns = Some(BigOf(100))
               /\ validation_results[3].timestamp_difference_ns = Some(BigOf(100))
               /\ InvalidCount(validation_results) = 2

\* C14: every result after the first carries the id, routing_sequence,
\* timestamp and canonical value of the input row just before it, and its
\* timestamp_difference_ns is the signed difference of the two canonical
\* values: positive exactly on invalid rows, zero exactly on rows annotated
\* equal, negative exactly on rows annotated correctly descending.
C14_PreviousAndSignedDifference ==
    \A k \in 2..Len(validation_results) :
        LET r == validation_results[k]
            d == r.timestamp_difference_ns[1]
        IN  /\ r.previous_id = Some(rows[k - 1].id)
            /\ r.previous_routing_sequence = Some(rows[k - 1].routing_sequence)
            /\ r.previous_timestamp = Some(rows[k - 1].timestamp)
            /\ r.previous_timestamp_ns = Some(Canon(k - 1))
            /\ r.timestamp_difference_ns = Some(BigSub(Canon(k), Canon(k - 1)))
            /\ BigLess(Zero, d) <=> ~r.is_valid
            /\ d = Zero <=>
                   r.validation_message[1] = "Timestamp equal to previous (valid)"
            /\ BigLess(d, Zero) <=>
                   r.validation_message[1] = "Timestamp correctly descending"

\* C15: a row whose canonical value equals its predecessor's is valid and
\* annotated 'equal to previous'; the three annotations are distinct, and
\* every row after the first carries exactly one of them: the violation
\* when the value increased, 'equal' when it is equal, 'correctly
\* descending' when it decreased.
C15_EqualAnnotatedDistinctly ==
    \A k \in 2..Len(validation_results) :
        LET r   == validation_results[k]
            msg == r.validation_message[1]
        IN  /\ Canon(k) = Canon(k - 1) =>
                   /\ r.is_valid
                   /\ r.validation_message = <<"Timestamp equal to previous (valid)">>
            /\ msg \in {"DISORDER DETECTED", "Timestamp equal to previous (valid)",
                         "Timestamp correctly descending"}
            /\ msg = "DISORDER DETECTED" <=> BigLess(Canon(k - 1), Canon(k))
            /\ msg = "Timestamp equal to previous (valid)" <=> Canon(k) = Canon(k - 1)
            /\ msg = "Timestamp correctly descending" <=> BigLess(Canon(k), Canon(k - 1))
            /\ r.is_valid <=> msg # "DISORDER DETECTED"

\* C15 witness: an equal row annotated equal, then a descending row
C15_Witness ==
    /\ run_gran = "nanosecond"
    /\ Stamps = <<Ns(200), Ns(200), Ns(100)>>
    /\ Len(validation_results) = 3
    /\ validation_results[2].is_valid
    /\ validation_results[2].validation_message
           = <<"Timestamp equal to previous (valid)">>
    /\ validation_results[3].validation_message[1] = "Timestamp correctly descending"

\* the positions (1-based) of the row results with is_valid = False
InvalidIndexes ==
    {k \in 1..Len(validation_results) : ~validation_results[k].is_valid}

C17_IndependentIdempotent ==
    /\ \A j, k \in 1..Len(reports) : reports[j] = reports[k]
    /\ df_columns = QueryColumns

(***************************************************************************)
(* Properties of the cross-check of src/time_sequence_new.py, checked      *)
(* under SpecCross.                                                        *)
(***************************************************************************)
\* row k agrees: its timestamp converts and its timesequence is exactly
\* whole seconds x 1,000,000,000 + the 9-digit fraction of its timestamp
RowAgrees(k) ==
    /\ ~TimeSequenceNewBody(rows[k].timestamp).raised
    /\ WellFormed(rows[k].timestamp, 9)
    /\ rows[k].timesequence = ExactNs(rows[k].timestamp, 9)

\* C20: the cross-check passes only when every row's timesequence equals
\* the canonical nanosecond value of its timestamp exactly: one row with a
\* difference other than zero, or whose timestamp fails conversion, makes
\* it fail.
C20_CrossCheckExact ==
    cross_check # None =>
        (cross_check[1] => \A k \in 1..Len(rows) : RowAgrees(k))

(***************************************************************************)
(* Properties of test_routing_sequence_timestamp_ordering, checked under   *)
(* Spec.                                                                   *)
(***************************************************************************)
FourReports ==
    <<"query_data", "ordering_validation", "DISORDERS_ONLY", "schema_report">>

Asserted ==
    test_result \in {"passed", "AssertionError_schema", "AssertionError_ordering"}

\* the test is at a statement that can be executed
TestCanStep ==
    \/ pc \in {"test", "start", "returned", "summarized", "saved"}
    \/ pc = "loop" /\ i <= Len(rows)

\* C22: when an assertion of the test has been evaluated the four reports
\* are written, in the order query data, ordering validation, disorders
\* only, schema report; reports are written only after the ordering
\* validation has run, also when the schema validation failed; and a run of
\* the test on a query result with rows ends nowhere but at the assertions:
\* until then it is at a statement that can be executed, and it raises no
\* other error.
C22_ReportsBeforeAsserts ==
    /\ Asserted => files = FourReports
    /\ pc \in {"saved", "done"} =>
           /\ files = FourReports
           /\ reports # <<>>
           /\ Len(validation_results) = Len(rows)
    /\ (test_result # "not_run" /\ Len(rows) > 0 /\ pc # "import"
            /\ pc # "config_error") =>
           \/ test_result = "running" /\ TestCanStep
           \/ Asserted /\ pc = "done"

C22_Witness ==
    /\ test_result = "AssertionError_schema"
    /\ ~summary[1].ordering_passed
    /\ files = FourReports
    /\ Len(rows) > 0

\* C28: when the query returns no row the ordering validation returns an
\* empty report and the test's aggregate follows without error: invalid and
\* valid counts 0 and ordering_passed true.
C28_EmptyInputPasses ==
    (rows = <<>> /\ test_result # "not_run"
        /\ pc \in {"raised", "summarized", "saved", "done"}) =>
        /\ reports = <<(<<>>)>>
        /\ test_result # "KeyError"
        /\ summary = Some([invalid_count |-> 0, valid_count |-> 0,
                           ordering_passed |-> TRUE])

(***************************************************************************)
(* Properties of the order of canonical values, checked under SpecOrder.   *)
(***************************************************************************)
\* year, month, day, hour, minute, second and fraction of a well-formed s
FieldsOf(s) ==
    <<Num(Slice(s, 0, 4)), Num(Slice(s, 4, 6)), Num(Slice(s, 6, 8)),
      Num(Slice(s, 9, 11)), Num(Slice(s, 12, 14)), Num(Slice(s, 15, 17)),
      Num(Slice(s, 18, Len(s)))>>

\* a denotes an earlier instant than b, comparing field by field
Earlier(a, b) ==
    \E k \in 1..7 :
        /\ FieldsOf(a)[k] < FieldsOf(b)[k]
        /\ \A j \in 1..(k - 1) : FieldsOf(a)[j] = FieldsOf(b)[j]

\* C27: of two well-formed timestamps of the granularity of the run the
\* first is earlier, field by field, exactly when its canonical value is
\* less; the two values are equal only when all fields are equal; and the
\* second row is reported as a disorder exactly when the first is earlier.
C27_OrderPreserved ==
    (Len(timestamp_ns) = 2
        /\ WellFormed(rows[1].timestamp, subsecond_length(run_gran))
        /\ WellFormed(rows[2].timestamp, subsecond_length(run_gran))) =>
        LET a == rows[1].timestamp
            b == rows[2].timestamp
        IN  /\ Earlier(a, b) <=> BigLess(timestamp_ns[1], timestamp_ns[2])
            /\ Earlier(b, a) <=> BigLess(timestamp_ns[2], timestamp_ns[1])
            /\ timestamp_ns[1] = timestamp_ns[2] => FieldsOf(a) = FieldsOf(b)
            /\ Len(validation_results) = 2 =>
                   (validation_results[2].is_valid = FALSE <=> Earlier(a, b))

(***************************************************************************)
(* Properties of validate_timestamp_with_schema of src/full_test.py,       *)
(* checked under SpecFull.                                                 *)
(***************************************************************************)
\* the conversion of the timestamp of row k (1-based)
ExpectedOf(k) == Call("full_test", rows[k].timestamp, "nanosecond")

\* |timesequence - expected_ns| of row k is at most 1 microsecond
WithinOneMicrosecond(k) ==
    ~BigLess(BigOf(1000),
             BigAbs(BigSub(rows[k].timesequence, ExpectedOf(k).value)))

\* C23: when validate_timestamp_with_schema has returned, whether or not
\* the schema validation passed, valid_rows + invalid_rows = total_rows =
\* the number of rows = the number of validation_details records, record k
\* being that of row k; a row is valid exactly when its conversion returns
\* and |timesequence - expected_ns| is at most 1 microsecond (1000 ns); a
\* row whose conversion raises is recorded invalid with the error; and
\* granularity_validation_passed is true exactly when invalid_rows = 0.
C23_EveryRowAccounted ==
    pc = "full_returned" =>
        LET r == full_results[1] IN
        /\ r.total_rows = Len(rows)
        /\ r.valid_rows + r.invalid_rows = r.total_rows
        /\ Len(r.validation_details) = r.total_rows
        /\ r.valid_rows =
               Cardinality({k \in 1..Len(rows) : r.validation_details[k].is_valid})
        /\ \A k \in 1..Len(rows) :
               /\ r.validation_details[k].row_index = k - 1
               /\ r.validation_details[k].timestamp = rows[k].timestamp
               /\ ExpectedOf(k).state = "raised" =>
                      /\ ~r.validation_details[k].is_valid
                      /\ r.validation_details[k].error # None
               /\ r.validation_details[k].is_valid <=>
                      (ExpectedOf(k).state = "returned" /\ WithinOneMicrosecond(k))
        /\ r.granularity_validation_passed <=> (r.invalid_rows = 0)

(***************************************************************************)
(* Properties of the uploads of src/zephyr_upload.py, checked under        *)
(* SpecUpload.                                                             *)
(***************************************************************************)
Sent(endpoint) == {k \in 1..Len(requests) : requests[k].endpoint = endpoint}

\* test case n (1-based) of the file was created and its execution too
Uploaded(n) ==
    \E k \in Sent("testcases") :
        /\ requests[k].ok
        /\ Cardinality({j \in Sent("testcases") : j <= k}) = n
        /\ k < Len(requests)
        /\ requests[k + 1].endpoint = "testexecutions"
        /\ requests[k + 1].ok

\* C24: an upload that has ended has returned False whenever the file
\* could not be read, the cycle could not be created, or the creation of a
\* test case or of a test execution failed; and True only when every test
\* case of the file and its execution were created.
C24_FalseOnAnyFailure ==
    pc = "up_done" =>
        /\ (upload.doc = "unreadable"
               \/ \E k \in 1..Len(requests) : ~requests[k].ok)
               => upload_ret = Some("False")
        /\ upload_ret = Some("True") =>
               \A n \in 1..Len(upload.cases) : Uploaded(n)

\* the file cannot be parsed, the JSON document read lists no test cases,
\* or the cycle is not created
EndsEarly ==
    \/ upload.doc = "unreadable"
    \/ upload.kind = "json" /\ upload.doc = "parsed" /\ upload.cases = <<>>
    \/ requests # <<>> /\ ~requests[1].ok

\* C29: a request for a test case or a test execution is sent only after
\* the request that created the test cycle of the run, the only one for a
\* cycle; and when the file cannot be parsed, the JSON document lists no
\* test cases or the cycle is not created, the function has returned False
\* and no request for a test case or an execution has been sent.
C29_CycleFirst ==
    /\ \A k \in Sent("testcases") \cup Sent("testexecutions") :
           /\ k > 1
           /\ requests[1].endpoint = "testcycles"
           /\ requests[1].ok
    /\ Sent("testcycles") \subseteq {1}
    /\ (pc = "up_done" /\ EndsEarly) =>
           /\ upload_ret = Some("False")
           /\ Sent("testcases") \cup Sent("testexecutions") = {}

\* C29 witness: the file listed test cases, the cycle was not created, and
\* False was returned with no other request sent
C29_Witness ==
    /\ pc = "up_done"
    /\ Len(upload.cases) = 2
    /\ Len(requests) = 1
    /\ ~requests[1].ok
    /\ upload_ret = Some("False")

\* C30: a request for a test execution directly follows the request that
\* created its test case, which succeeded; it carries the key that request
\* returned and the key of the cycle the run created; no two executions
\* carry the same test case key; and the failed creation of a test case is
\* not followed by an execution.
C30_ExecutionAfterCreation ==
    /\ \A k \in Sent("testexecutions") :
           /\ k > 2
           /\ requests[k - 1].endpoint = "testcases"
           /\ requests[k - 1].ok
           /\ requests[k].testCaseKey # None
           /\ requests[k].testCaseKey = requests[k - 1].key
           /\ requests[1].endpoint = "testcycles" /\ requests[1].ok
           /\ requests[k].testCycleKey = requests[1].key
    /\ \A j, k \in Sent("testexecutions") :
           requests[j].testCaseKey = requests[k].testCaseKey => j = k
    /\ \A k \in Sent("testcases") :
           (~requests[k].ok /\ k < Len(requests)) =>
               requests[k + 1].endpoint # "testexecutions"
    /\ Cardinality(Sent("testexecutions")) <=
           Cardinality({k \in Sent("testcases") : requests[k].ok})

\* C30 witness: of two test cases the first was not created and the second
\* was, and the run has ended with one execution, that of the second
C30_Witness ==
    /\ pc = "up_done"
    /\ Len(upload.cases) = 2
    /\ Len(requests) = 4
    /\ requests[2].endpoint = "testcases" /\ ~requests[2].ok
    /\ requests[3].endpoint = "testcases" /\ requests[3].ok
    /\ requests[4].endpoint = "testexecutions"
    /\ requests[4].testCaseKey = requests[3].key

\* the configurations create_test_case can be called with
Callable(test_config) == test_config.args = "accepted"

Answered(request) == request.ok

\* the test cases the server created, as it answered them, in the order of
\* the requests
CreatedOnServer ==
    [k \in 1..Len(SelectSeq(requests, Answered)) |->
        [key  |-> SelectSeq(requests, Answered)[k].key[1],
         name |-> SelectSeq(requests, Answered)[k].name[1]]]

\* C25: when create_test_cases_bulk has returned, every configuration of the
\* input was attempted, in input order: one request was sent for each
\* configuration the call accepts, whatever became of the earlier ones; the
\* list returned holds exactly the test cases that were created, in that
\* order, and is no longer than the input.
C25_BulkReturnsSuccesses ==
    pc = "bulk_done" =>
        /\ i = Len(upload.cases)
        /\ Len(requests) = Len(SelectSeq(upload.cases, Callable))
        /\ \A k \in 1..Len(requests) :
              requests[k].name = Some(SelectSeq(upload.cases, Callable)[k].name)
        /\ upload_ret = Some(CreatedOnServer)
        /\ Len(upload_ret[1]) <= Len(upload.cases)

\* C25 witness: the first test case failed with an HTTP error, the second was
\* attempted all the same and is the only one returned
C25_Witness ==
    /\ pc = "bulk_done"
    /\ Len(upload.cases) = 2
    /\ Len(requests) = 2
    /\ ~requests[1].ok
    /\ requests[2].ok
    /\ upload_ret = Some(<<[key |-> 101, name |-> upload.cases[2].name]>>)

====
